---- MODULE Spec2Model ----
(***************************************************************************)
(* A model of the sharding layer of xftcpp: ShardingParam (mesh            *)
(* feasibility, mesh linearization, local/global shape conversion),        *)
(* DeviceList (addressable sub-list cache, fingerprint) and HloSharding    *)
(* (index domains, cached hash).                                           *)
(***************************************************************************)
EXTENDS Integers, Sequences, FiniteSets, TLC

(***************************************************************************)
(* Bounds of the model.                                                    *)
(***************************************************************************)
\* longest dim_shards sequence
MaxRank == 3
\* largest entry of dim_shards (0 is included: the constructor accepts it)
MaxShard == 3
\* largest number of mesh axes
MaxMesh == 2
\* largest mesh axis size (0 is included: the constructor accepts it)
MaxAxis == 3
\* how often ToDeviceList is called on the same output vector
MaxCalls == 2
\* number of Device objects the client owns
MaxDevices == 2
\* longest DeviceList
MaxListLen == 3
\* threads that call DeviceList::AddressableDeviceList concurrently
MaxThreads == 2
\* AddressableDeviceList calls each thread makes
MaxListCalls == 2
\* largest Device::id() of a fingerprinted list (two decimal digits)
MaxDeviceId == 11
\* longest fingerprinted DeviceList
MaxFpLen == 2
\* width of the modelled hash values, in bits
HashBits == 3
\* memory kinds 0 (unset) .. MaxMemoryKind
MaxMemoryKind == 1
\* distinct xla::HloSharding values 0 .. MaxTilingSpec that get hashed
MaxTilingSpec == 1
\* Hash calls each thread makes
MaxHashCalls == 2
\* longest array shape
MaxShapeRank == 2
\* largest array dimension
MaxDim == 4
\* longest device list of a sharding that gets a new device assignment
MaxAssignLen == 2

\* the rank of an Index
MaxIndexRank == 2

\* the width of an Index element (an int64_t in the code)
IndexBits == 2

\* the rank of an IndexDomain
MaxDomainRank == 2

\* MemoryKind constructions in one run
MaxKindCalls == 4

\* the width of a size_t
SizeBits == 6

\* the largest element_size calculate_aligned_size is called with
MaxElementSize == 8

\* the rank and the largest dimension of an Array
MaxArrayRank == 2

MaxArrayDim == 3

\* the width of an element of an IndexDomain's origin (an int64_t)
DomainBits == 6

\* the ReferenceCounted objects, the RCReference variables and the released
\* raw references of one thread
MaxObjects == 2

MaxRefs == 2

MaxRaw == 1

\* the references a thread owns to the shared ReferenceCounted object
MaxHeld == 3

VARIABLES
    \* ---- ShardingParam (sharding_params.h) ----
    dim_shards,       \* ShardingParam::dim_shards_
    permutation,      \* ShardingParam::MinorToMajor::permutation
    axis_sizes,       \* ShardingParam::MinorToMajor::axis_sizes
    verify_status,    \* what the last verify() call returned ("none": not called)
    out_devices,      \* the caller's vector handed to ToDeviceList
    tdl_calls,        \* number of ToDeviceList calls made on out_devices
    tdl_ub,           \* TRUE once a ToDeviceList call had undefined behaviour
    \* ---- Device / DeviceList (device.h, device_list.h) ----
    dev_addressable,  \* Device::IsAddressable() of each Device object
    dl_heap,          \* the DeviceList objects ever allocated, by address:
                      \*   devices_, addressable_device_list_, and whether
                      \*   the object is still alive (not deleted)
    dl_threads,       \* the threads that use the parent DeviceList
    t_pc,             \* where each thread is in AddressableDeviceList()
    t_new,            \* the list a thread's make_unique allocated
    t_old,            \* unique_ptr::reset's local copy of the old pointer
    t_calls,          \* calls each thread has completed
    dl_returned,      \* every pointer AddressableDeviceList() has returned
    \* ---- DeviceList::fingerprint (device_list.cpp) ----
    fp_ids,           \* Device::id() of the devices of two DeviceLists
    fp_fingerprint,   \* what fingerprint() returned for each ("none": not called)
    \* ---- HloSharding::Hash (xla_shardings.h) ----
    hs_lists,         \* the DeviceList objects, by address: their devices_
    hs_shardings,     \* the HloSharding objects: devices_, memory_kind_,
                      \*   xla_hlo_sharding_ and the cached hash_
    hs_threads,       \* the threads that hash
    h_pc,             \* where each thread is in Hash()
    h_target,         \* the sharding a thread's Hash() call is on
    h_hash,           \* the local variable hash of each thread
    h_calls,          \* Hash calls each thread has completed
    hs_stored,        \* every hash_.store made: <<sharding, value>>, in order
    hs_combined,      \* every value combined into a state: <<sharding, value>>
    hs_seed,          \* absl::Hash's per-process seed
    \* ---- ShardingParam shape conversions (sharding_params.cc) ----
    sh_shape,         \* the shape handed in by the caller
    sh_local,         \* result of LocalShapeFromGlobalShape(sh_shape)
    sh_global,        \* result of GlobalShapeFromLocalShape(sh_local.shape)
    sh_global_direct, \* result of GlobalShapeFromLocalShape(sh_shape)
    \* ---- HloSharding::IndexDomains (xla_shardings.cpp) ----
    id_sharding,      \* HloSharding::xla_hlo_sharding_
    id_devices,       \* HloSharding::devices_
    id_addressable,   \* Device::IsAddressable() of each Device
    id_shape,         \* the shape argument
    id_semantics,     \* the single_device_shard_semantics argument
    id_memory_kind,   \* HloSharding::memory_kind_ (Sharding::memory_kind_)
    id_fast,          \* result of HloSharding::IndexDomains
    id_slow,          \* result of TEST_HloShardingIndexDomainsSlowPath
    \* ---- HloSharding::GetShardShape / Disassemble (xla_shardings.cpp) ----
    sd_shard_shape,   \* result of GetShardShape(id_shape)
    sd_default_domains, \* result of IndexDomains(id_shape)
    sd_shards,        \* result of Disassemble(id_shape, id_semantics)
    sd_default_shards, \* result of Disassemble(id_shape)
    \* ---- HloSharding::WithDeviceAssignment (xla_shardings.cpp) ----
    wd_default_kind,  \* the kind of each Device's DefaultMemory() (0: none)
    wd_created,       \* the arguments HloSharding::Create was given
    wd_sharding,      \* the HloSharding: devices_, memory_kind_, xla_hlo_sharding_
    wd_args,          \* the arguments of the WithDeviceAssignment call
    wd_result,        \* what WithDeviceAssignment returned
    \* ---- BoundedDynamicShapeTag / DynamicShape (shape.h, shape.cpp) ----
    ds_dims,          \* the dynamic_dims argument of the tag's constructor
    ds_tag,           \* what constructing the BoundedDynamicShapeTag did
    ds_shape,         \* the shape argument of DynamicShape::Create
    ds_created,       \* what DynamicShape::Create returned
    \* ---- Index (index.h) and the Index of xla_shardings.cpp ----
    ix_local,         \* TRUE: the operands are xla_shardings.cpp's Index
    ix_a,             \* elements of the left operand
    ix_b,             \* elements of the right operand (Index or span)
    ix_op,            \* the operators applied so far
    ix_first,         \* outcome of ix_a op ix_b
    ix_second,        \* outcome of (ix_a op ix_b) op' ix_b
    \* ---- IndexDomain (index_domain.h) ----
    dm_domain,        \* the IndexDomain d: origin and shape
    dm_offset,        \* elements of the Index offset
    dm_op,            \* the operators applied so far
    dm_first,         \* outcome of d op offset
    dm_second,        \* outcome of (d op offset) op' offset
    \* ---- MemoryKind (memory.h, memory.cpp) ----
    mk_set,           \* global_set->memory_kinds_set: node address -> content
    mk_mu,            \* global_set->mu: the thread holding it, 0 if free
    mk_pc,            \* per thread: position in MemoryKind::MemoryKind
    mk_arg,           \* per thread: the memory_kind argument
    mk_it,            \* per thread: the node find() returned, 0 for end()
    mk_made,          \* the MemoryKind values constructed so far
    mk_calls,         \* constructions started so far
    \* ---- xft::memory (cpp/xft/memory.h) ----
    al_fn,            \* the function called: "align_size", ...
    al_args,          \* its arguments, in order
    al_result,        \* the size_t it returned, -1 before the call
    \* ---- xft::Array (cpp/xft/array.h) ----
    ar_array,         \* what Array(shape, dtype, order) gave
    ar_call,          \* the accessor called and its indices
    ar_result,        \* what the accessor did
    \* ---- ReferenceCounted / RCReference on one thread (ref_count.h) ----
    rc_heap,          \* the objects: ref_count_, whether the object is
                      \*   live, how often Destroy() ran, and whether a
                      \*   destroyed object was used
    rc_exists,        \* the RCReference variables that are constructed
    rc_pointer,       \* RCReference::pointer_ of each
    rc_raw,           \* raw +1 references release() handed to the caller
    rc_last,          \* the operation made last
    \* ---- ReferenceCounted shared by threads (ref_count.h) ----
    rt_ref_count,     \* ReferenceCounted::ref_count_
    rt_destroyed,     \* how often Destroy() ran
    rt_held,          \* the references each thread owns
    rt_pc,            \* where each thread is in DropRef()
    rt_uaf            \* TRUE once ref_count_ of a destroyed object was used

spVars == <<dim_shards, permutation, axis_sizes, verify_status, out_devices,
            tdl_calls, tdl_ub>>

dlVars == <<dev_addressable, dl_heap, dl_threads, t_pc, t_new, t_old, t_calls,
            dl_returned>>

fpVars == <<fp_ids, fp_fingerprint>>

hsVars == <<hs_lists, hs_shardings, hs_threads, h_pc, h_target, h_hash,
            h_calls, hs_stored, hs_combined, hs_seed>>

shVars == <<sh_shape, sh_local, sh_global, sh_global_direct>>

idVars == <<id_sharding, id_devices, id_addressable, id_shape, id_semantics,
            id_memory_kind, id_fast, id_slow>>

sdVars == <<sd_shard_shape, sd_default_domains, sd_shards, sd_default_shards>>

wdVars == <<wd_default_kind, wd_created, wd_sharding, wd_args, wd_result>>

dsVars == <<ds_dims, ds_tag, ds_shape, ds_created>>

ixVars == <<ix_local, ix_a, ix_b, ix_op, ix_first, ix_second>>

dmVars == <<dm_domain, dm_offset, dm_op, dm_first, dm_second>>

\* the variables of the value types and utilities modelled further down
mkVars == <<mk_set, mk_mu, mk_pc, mk_arg, mk_it, mk_made, mk_calls>>

alVars == <<al_fn, al_args, al_result>>

arVars == <<ar_array, ar_call, ar_result>>

rcVars == <<rc_heap, rc_exists, rc_pointer, rc_raw, rc_last>>

rtVars == <<rt_ref_count, rt_destroyed, rt_held, rt_pc, rt_uaf>>

rfVars == <<rcVars, rtVars>>

utilVars == <<dmVars, mkVars, alVars, arVars, rfVars>>

vars == <<spVars, dlVars, fpVars, hsVars, shVars, idVars, sdVars, wdVars,
          dsVars, ixVars, utilVars>>

\* what the operations of one class leave alone
notSP ==
    <<dlVars, fpVars, hsVars, shVars, idVars, sdVars, wdVars, dsVars, ixVars,
      utilVars>>

notDL ==
    <<spVars, fpVars, hsVars, shVars, idVars, sdVars, wdVars, dsVars, ixVars,
      utilVars>>

notFP ==
    <<spVars, dlVars, hsVars, shVars, idVars, sdVars, wdVars, dsVars, ixVars,
      utilVars>>

notHS ==
    <<spVars, dlVars, fpVars, shVars, idVars, sdVars, wdVars, dsVars, ixVars,
      utilVars>>

notSH ==
    <<spVars, dlVars, fpVars, hsVars, idVars, sdVars, wdVars, dsVars, ixVars,
      utilVars>>

notID ==
    <<spVars, dlVars, fpVars, hsVars, shVars, sdVars, wdVars, dsVars, ixVars,
      utilVars>>

notWD ==
    <<spVars, dlVars, fpVars, hsVars, shVars, idVars, sdVars, dsVars, ixVars,
      utilVars>>

\* everything but the variables of an HloSharding and its call results
notHlo ==
    <<spVars, dlVars, fpVars, hsVars, shVars, wdVars, dsVars, ixVars,
      utilVars>>

notDS ==
    <<spVars, dlVars, fpVars, hsVars, shVars, idVars, sdVars, wdVars, ixVars,
      utilVars>>

notIX ==
    <<spVars, dlVars, fpVars, hsVars, shVars, idVars, sdVars, wdVars, dsVars,
      utilVars>>

\* everything but the variables of the value types and utilities
notUtil ==
    <<spVars, dlVars, fpVars, hsVars, shVars, idVars, sdVars, wdVars, dsVars,
      ixVars>>

(***************************************************************************)
(* Helpers                                                                 *)
(***************************************************************************)
SeqsUpTo(S, n) == UNION {[1..k -> S] : k \in 0..n}

Range(s) == {s[i] : i \in DOMAIN s}

RECURSIVE Product(_)
Product(s) == IF s = <<>> THEN 1 ELSE Head(s) * Product(Tail(s))

(***************************************************************************)
(* ShardingParam::MinorToMajor::verify                                     *)
(***************************************************************************)
\* Mutant: the duplicate check is dropped.
MinorToMajor_verify_NoDupCheck(perm, axis) ==
    IF Len(perm) # Len(axis) \/ axis = <<>>
    THEN "INVALID_ARGUMENT"
    ELSE IF \E i \in DOMAIN perm : perm[i] < 0 \/ perm[i] >= Len(axis)
         THEN "INVALID_ARGUMENT"
         ELSE "OK"

MinorToMajor_verify(perm, axis) ==
    IF Len(perm) # Len(axis) \/ axis = <<>>
    THEN "INVALID_ARGUMENT"
    ELSE IF Cardinality(Range(perm)) # Len(perm)
         THEN "INVALID_ARGUMENT"
         ELSE IF \E i \in DOMAIN perm : perm[i] < 0 \/ perm[i] >= Len(axis)
              THEN "INVALID_ARGUMENT"
              ELSE "OK"

(***************************************************************************)
(* ShardingParam::verify: the greedy walk.  dim_index is 0-based as in the *)
(* code; sequences are 1-based, so dim_shards()[dim_index] is ds[di + 1].  *)
(***************************************************************************)
\* while (dim_index < dim_shards().size() && dim_shards()[dim_index] == 1)
RECURSIVE SkipUnsharded(_, _)
SkipUnsharded(ds, di) ==
    IF di < Len(ds) /\ ds[di + 1] = 1 THEN SkipUnsharded(ds, di + 1) ELSE di

\* Mutant: the second while loop advances over a dimension whether or not
\* cum_size is divisible by its shard count.
RECURSIVE ConsumeDims_AnyRemainder(_, _, _)
ConsumeDims_AnyRemainder(ds, di, cum) ==
    IF di >= Len(ds)
    THEN [di |-> di, cum |-> cum, div0 |-> FALSE]
    ELSE IF ds[di + 1] = 0
         THEN [di |-> di, cum |-> cum, div0 |-> TRUE]
         ELSE ConsumeDims_AnyRemainder(ds, di + 1, cum \div ds[di + 1])

\* while (dim_index < size && cum_size % dim_shards()[dim_index] == 0)
\* div0 records that the loop evaluated cum_size % 0.
RECURSIVE ConsumeDims(_, _, _)
ConsumeDims(ds, di, cum) ==
    IF di >= Len(ds)
    THEN [di |-> di, cum |-> cum, div0 |-> FALSE]
    ELSE IF ds[di + 1] = 0
         THEN [di |-> di, cum |-> cum, div0 |-> TRUE]
         ELSE IF cum % ds[di + 1] = 0
              THEN ConsumeDims(ds, di + 1, cum \div ds[di + 1])
              ELSE [di |-> di, cum |-> cum, div0 |-> FALSE]

\* for (const int index : minor_to_major().permutation), from entry k on
RECURSIVE VerifyLoop(_, _, _, _, _, _)
VerifyLoop(ds, perm, axis, k, di, cum) ==
    IF k > Len(perm)
    THEN [di |-> di, cum |-> cum, div0 |-> FALSE]
    ELSE LET d1 == SkipUnsharded(ds, di)
         IN  IF d1 = Len(ds)
             THEN [di |-> d1, cum |-> cum, div0 |-> FALSE]
             ELSE LET r == ConsumeDims(ds, d1, cum * axis[perm[k] + 1])
                  IN  IF r.div0 THEN r
                      ELSE VerifyLoop(ds, perm, axis, k + 1, r.di, r.cum)

\* The outcomes of integer division by zero (undefined behaviour): a trap,
\* or the function carrying on to either return.
DivByZeroOutcomes == {"SIGFPE", "OK", "INVALID_ARGUMENT"}

\* Mutant: the trailing "skip remaining unsharded dimensions" loop is dropped.
ShardingParam_verify_NoTrailingSkip(ds, perm, axis) ==
    IF MinorToMajor_verify(perm, axis) # "OK"
    THEN {"INVALID_ARGUMENT"}
    ELSE LET w == VerifyLoop(ds, perm, axis, 1, 0, 1)
         IN  IF w.div0 THEN DivByZeroOutcomes
             ELSE IF w.di # Len(ds)
                  THEN {"INVALID_ARGUMENT"}
                  ELSE {"OK"}

\* The set of statuses verify() can return on (ds, perm, axis).
ShardingParam_verify(ds, perm, axis) ==
    IF MinorToMajor_verify(perm, axis) # "OK"
    THEN {"INVALID_ARGUMENT"}
    ELSE LET w == VerifyLoop(ds, perm, axis, 1, 0, 1)
         IN  IF w.div0 THEN DivByZeroOutcomes
             ELSE IF SkipUnsharded(ds, w.di) # Len(ds)
                  THEN {"INVALID_ARGUMENT"}
                  ELSE {"OK"}

(***************************************************************************)
(* ShardingParam::NumDevices, MinorToMajor::ToDeviceList, PopulateDevices  *)
(***************************************************************************)
NumDevices(axis) == Product(axis)

\* cum_sizes[i] = product of axis_sizes[0..i-1]
CumSizes(axis) == [i \in DOMAIN axis |-> Product(SubSeq(axis, 1, i - 1))]

DropBack(s) == SubSeq(s, 1, Len(s) - 1)

\* The ids PopulateDevices appends: the loop over i from position i on.
RECURSIVE PopulateDevicesFrom(_, _, _, _, _)
PopulateDevicesFrom(perm, axis, cum_sizes, base, i) ==
    LET expanding_dim == perm[Len(perm)]
        expanding_dim_size == axis[expanding_dim + 1]
        expanding_cum_dim_size == cum_sizes[expanding_dim + 1]
    IN  IF i >= expanding_dim_size
        THEN <<>>
        ELSE (IF Len(perm) = 1
              THEN <<base + i * expanding_cum_dim_size>>
              ELSE PopulateDevicesFrom(DropBack(perm), axis, cum_sizes,
                                       base + i * expanding_cum_dim_size, 0))
             \o PopulateDevicesFrom(perm, axis, cum_sizes, base, i + 1)

\* Mutant: the recursion walks the permutation from its front, so the
\* first permutation entry becomes the slowest axis.
PopulateDevices_FrontFirst(perm, axis, cum_sizes, base) ==
    PopulateDevicesFrom([i \in DOMAIN perm |-> perm[Len(perm) + 1 - i]],
                        axis, cum_sizes, base, 0)

PopulateDevices(perm, axis, cum_sizes, base) ==
    PopulateDevicesFrom(perm, axis, cum_sizes, base, 0)

\* permutation.back() and axis_sizes[expanding_dim] are defined
ToDeviceListDefined(perm, axis) ==
    /\ perm # <<>>
    /\ \A i \in DOMAIN perm : perm[i] >= 0 /\ perm[i] < Len(axis)

\* Mutant: cum_sizes holds the running product including the axis itself.
ToDeviceList_CumInclusive(perm, axis, out) ==
    out \o PopulateDevices(perm, axis,
                           [i \in DOMAIN axis |-> Product(SubSeq(axis, 1, i))], 0)

\* The vector after ToDeviceList(out): the ids are appended to out.
ToDeviceList(perm, axis, out) ==
    out \o PopulateDevices(perm, axis, CumSizes(axis), 0)

(***************************************************************************)
(* State machine of the ShardingParam operations                           *)
(***************************************************************************)
\* The (permutation, axis_sizes) pairs a caller can construct.
MinorToMajors ==
    [perm : SeqsUpTo(0..MaxMesh, MaxMesh), axis : SeqsUpTo(0..MaxAxis, MaxMesh)]

ValidMinorToMajors ==
    {x \in MinorToMajors : MinorToMajor_verify(x.perm, x.axis) = "OK"}

InvalidMinorToMajors == MinorToMajors \ ValidMinorToMajors

\* The state after construction of a ShardingParam: any dim_shards and mesh
\* (the constructor validates nothing).  verify() returns before it reads
\* dim_shards when minor_to_major is structurally invalid, so those meshes
\* are paired with the dim_shards of rank <= 1 only.
InitSP ==
    /\ \/ \E m \in ValidMinorToMajors, d \in SeqsUpTo(0..MaxShard, MaxRank) :
             dim_shards = d /\ permutation = m.perm /\ axis_sizes = m.axis
       \/ \E m \in InvalidMinorToMajors, d \in SeqsUpTo(0..MaxShard, 1) :
             dim_shards = d /\ permutation = m.perm /\ axis_sizes = m.axis
    /\ verify_status = "none"
    /\ out_devices = <<>>
    /\ tdl_calls = 0
    /\ tdl_ub = FALSE

\* sharding.verify()
Verify ==
    /\ verify_status = "none"
    /\ verify_status' \in ShardingParam_verify(dim_shards, permutation, axis_sizes)
    /\ UNCHANGED <<dim_shards, permutation, axis_sizes, out_devices, tdl_calls,
                   tdl_ub>>
    /\ UNCHANGED notSP

\* sharding.minor_to_major().ToDeviceList(out_devices)
CallToDeviceList ==
    /\ tdl_calls < MaxCalls
    /\ ~tdl_ub
    /\ tdl_calls' = tdl_calls + 1
    /\ IF ToDeviceListDefined(permutation, axis_sizes)
       THEN /\ out_devices' = ToDeviceList(permutation, axis_sizes, out_devices)
            /\ tdl_ub' = FALSE
       ELSE \* out-of-range read of permutation or axis_sizes
            /\ out_devices' \in {out_devices, out_devices \o <<0>>}
            /\ tdl_ub' = TRUE
    /\ UNCHANGED <<dim_shards, permutation, axis_sizes, verify_status>>
    /\ UNCHANGED notSP

\* The dim_shards the mesh linearization is exercised with.  ToDeviceList
\* reads minor_to_major only; dim_shards matters to the verify() call that
\* precedes it.
MeshDimShards == {<<>>, <<1>>, <<2>>, <<2, 2>>, <<2, 1, 3>>}

InitMesh ==
    /\ dim_shards \in MeshDimShards
    /\ \E m \in MinorToMajors : permutation = m.perm /\ axis_sizes = m.axis
    /\ verify_status = "none"
    /\ out_devices = <<>>
    /\ tdl_calls = 0
    /\ tdl_ub = FALSE

NextMesh == Verify \/ CallToDeviceList

\* The ShardingParam variables of a run that uses no ShardingParam.
IdleSP ==
    /\ dim_shards = <<>>
    /\ permutation = <<>>
    /\ axis_sizes = <<>>
    /\ verify_status = "none"
    /\ out_devices = <<>>
    /\ tdl_calls = 0
    /\ tdl_ub = FALSE

(***************************************************************************)
(* Device and DeviceList                                                   *)
(***************************************************************************)
Devices == 1 .. MaxDevices

\* addresses of DeviceList objects: the parent list, then the allocations
Null == 0
ParentList == 1

\* for (Device* device : devices_) if (device->IsAddressable()) push_back
RECURSIVE FilterAddressable(_, _)
FilterAddressable(devs, addressable) ==
    IF devs = <<>>
    THEN <<>>
    ELSE (IF addressable[Head(devs)] THEN <<Head(devs)>> ELSE <<>>)
         \o FilterAddressable(Tail(devs), addressable)

\* Mutant: the filter keeps the first addressable device only once.
RECURSIVE FilterAddressableDedup(_, _)
FilterAddressableDedup(devs, addressable) ==
    IF devs = <<>>
    THEN <<>>
    ELSE LET rest == FilterAddressableDedup(Tail(devs), addressable)
         IN  IF addressable[Head(devs)] /\ Head(devs) \notin Range(rest)
             THEN <<Head(devs)>> \o rest
             ELSE rest

\* the first loop of AddressableDeviceList
AllAddressable(devs, addressable) ==
    \A i \in DOMAIN devs : addressable[devs[i]]

\* Mutant of the filtered vector handed to make_unique.
AddressableDevices_Dedup(devs, addressable) ==
    FilterAddressableDedup(devs, addressable)

\* the vector addressable_devices handed to make_unique
AddressableDevices(devs, addressable) == FilterAddressable(devs, addressable)

\* DeviceList::DeviceList(devices): a fresh object, cache empty
NewDeviceList(devs) ==
    [devices |-> devs, addressable_device_list |-> Null, alive |-> TRUE]

\* The state after the client created its devices and one DeviceList,
\* used by the threads in thr.
InitDeviceList(thr) ==
    /\ dev_addressable \in [Devices -> BOOLEAN]
    /\ \E devs \in SeqsUpTo(Devices, MaxListLen) :
          dl_heap = <<NewDeviceList(devs)>>
    /\ dl_threads = thr
    /\ t_pc = [t \in thr |-> "idle"]
    /\ t_new = [t \in thr |-> Null]
    /\ t_old = [t \in thr |-> Null]
    /\ t_calls = [t \in thr |-> 0]
    /\ dl_returned = {}

IdleDL ==
    /\ dev_addressable = [d \in Devices |-> TRUE]
    /\ dl_heap = <<>>
    /\ dl_threads = {}
    /\ t_pc = <<>>
    /\ t_new = <<>>
    /\ t_old = <<>>
    /\ t_calls = <<>>
    /\ dl_returned = {}

Parent == dl_heap[ParentList]

\* a call returns pointer p to its caller
ReturnList(t, p) ==
    /\ dl_returned' = dl_returned \cup {p}
    /\ t_calls' = [t_calls EXCEPT ![t] = @ + 1]
    /\ t_pc' = [t_pc EXCEPT ![t] = "idle"]

\* Entry of AddressableDeviceList(): the all_addressable loop and the
\* "return this" of a fully addressable list.
ADL_Enter(t) ==
    /\ t_pc[t] = "idle"
    /\ t_calls[t] < MaxListCalls
    /\ IF AllAddressable(Parent.devices, dev_addressable)
       THEN ReturnList(t, ParentList)
       ELSE /\ t_pc' = [t_pc EXCEPT ![t] = "check_cache"]
            /\ UNCHANGED <<t_calls, dl_returned>>
    /\ UNCHANGED <<dev_addressable, dl_heap, dl_threads, t_new, t_old>>
    /\ UNCHANGED notDL

\* if (addressable_device_list_) return addressable_device_list_.get();
ADL_CheckCache(t) ==
    /\ t_pc[t] = "check_cache"
    /\ IF Parent.addressable_device_list # Null
       THEN ReturnList(t, Parent.addressable_device_list)
       ELSE /\ t_pc' = [t_pc EXCEPT ![t] = "make_unique"]
            /\ UNCHANGED <<t_calls, dl_returned>>
    /\ UNCHANGED <<dev_addressable, dl_heap, dl_threads, t_new, t_old>>
    /\ UNCHANGED notDL

\* the filter loop and std::make_unique<DeviceList>(addressable_devices)
ADL_MakeUnique(t) ==
    /\ t_pc[t] = "make_unique"
    /\ dl_heap' = Append(dl_heap,
           NewDeviceList(AddressableDevices(Parent.devices, dev_addressable)))
    /\ t_new' = [t_new EXCEPT ![t] = Len(dl_heap) + 1]
    /\ t_pc' = [t_pc EXCEPT ![t] = "load_old"]
    /\ UNCHANGED <<dev_addressable, dl_threads, t_old, t_calls, dl_returned>>
    /\ UNCHANGED notDL

\* unique_ptr move assignment, reset(p): old = ptr;
ADL_LoadOld(t) ==
    /\ t_pc[t] = "load_old"
    /\ t_old' = [t_old EXCEPT ![t] = Parent.addressable_device_list]
    /\ t_pc' = [t_pc EXCEPT ![t] = "store_new"]
    /\ UNCHANGED <<dev_addressable, dl_heap, dl_threads, t_new, t_calls,
                   dl_returned>>
    /\ UNCHANGED notDL

\* reset(p): ptr = p;
ADL_StoreNew(t) ==
    /\ t_pc[t] = "store_new"
    /\ dl_heap' = [dl_heap EXCEPT ![ParentList].addressable_device_list = t_new[t]]
    /\ t_pc' = [t_pc EXCEPT ![t] = "delete_old"]
    /\ UNCHANGED <<dev_addressable, dl_threads, t_new, t_old, t_calls,
                   dl_returned>>
    /\ UNCHANGED notDL

\* reset(p): if (old) delete old;
ADL_DeleteOld(t) ==
    /\ t_pc[t] = "delete_old"
    /\ dl_heap' = IF t_old[t] # Null
                  THEN [dl_heap EXCEPT ![t_old[t]].alive = FALSE]
                  ELSE dl_heap
    /\ t_pc' = [t_pc EXCEPT ![t] = "return"]
    /\ UNCHANGED <<dev_addressable, dl_threads, t_new, t_old, t_calls,
                   dl_returned>>
    /\ UNCHANGED notDL

\* return addressable_device_list_.get();
ADL_Return(t) ==
    /\ t_pc[t] = "return"
    /\ ReturnList(t, Parent.addressable_device_list)
    /\ UNCHANGED <<dev_addressable, dl_heap, dl_threads, t_new, t_old>>
    /\ UNCHANGED notDL

NextDL ==
    \/ \E t \in dl_threads : ADL_Enter(t)
    \/ \E t \in dl_threads : ADL_CheckCache(t)
    \/ \E t \in dl_threads : ADL_MakeUnique(t)
    \/ \E t \in dl_threads : ADL_LoadOld(t)
    \/ \E t \in dl_threads : ADL_StoreNew(t)
    \/ \E t \in dl_threads : ADL_DeleteOld(t)
    \/ \E t \in dl_threads : ADL_Return(t)

(***************************************************************************)
(* DeviceList::fingerprint                                                 *)
(***************************************************************************)
\* absl::AlphaNum(int): the decimal digits of a non-negative int, as chars
RECURSIVE AlphaNum(_)
AlphaNum(n) ==
    IF n < 10
    THEN <<48 + n>>
    ELSE AlphaNum(n \div 10) \o <<48 + (n % 10)>>

\* FingerprintPrinter::Append over all devices: the bytes fed to the hash
RECURSIVE AppendedBytes(_)
AppendedBytes(ids) ==
    IF ids = <<>>
    THEN <<>>
    ELSE AlphaNum(Head(ids)) \o AppendedBytes(Tail(ids))

\* DeviceList::fingerprint(). HighwayHash with the fixed key is taken as
\* collision-free, so the fingerprint is identified with the bytes hashed.
fingerprint(ids) == AppendedBytes(ids)

FpLists == 1 .. 2

InitFP ==
    /\ fp_ids \in [FpLists -> SeqsUpTo(0 .. MaxDeviceId, MaxFpLen)]
    /\ fp_fingerprint = [l \in FpLists |-> [status |-> "none", value |-> <<>>]]

IdleFP ==
    /\ fp_ids = <<>>
    /\ fp_fingerprint = <<>>

CallFingerprint(l) ==
    /\ fp_fingerprint[l].status = "none"
    /\ fp_fingerprint' = [fp_fingerprint EXCEPT ![l] =
           [status |-> "done", value |-> fingerprint(fp_ids[l])]]
    /\ UNCHANGED fp_ids
    /\ UNCHANGED notFP

NextFP == \E l \in FpLists : CallFingerprint(l)

(***************************************************************************)
(* HloSharding::Hash                                                       *)
(***************************************************************************)
\* static constexpr uint64_t kUnsetHash = 0;
kUnsetHash == 0

HashValues == 0 .. (2 ^ HashBits - 1)

\* absl's combine step: mixes one more value into a hash state
Mix(h, v) == (h * 3 + v) % (2 ^ HashBits)

\* absl::HashOf(devices_, memory_kind_, xla_hlo_sharding_). devices_ is a
\* std::shared_ptr<DeviceList>, which absl hashes by the address it holds;
\* the memory kind and the xla::HloSharding are hashed by content.
AbslHashOf(seed, devices_ptr, memory_kind, xla_hlo_sharding) ==
    Mix(Mix(Mix(seed, devices_ptr), memory_kind), xla_hlo_sharding)

\* Mutant: the computed hash is stored as it is.
AdjustHash_Keep(hash) == hash

\* if (hash == kUnsetHash) ++hash;
AdjustHash(hash) ==
    IF hash = kUnsetHash THEN (hash + 1) % (2 ^ HashBits) ELSE hash

\* the device sequences of the DeviceList objects that get hashed
HashDeviceLists == {<<1>>, <<1, 2>>, <<2, 1>>}

\* HloSharding::Create(devices, memory_kind, xla_hlo_sharding)
NewHloSharding(devices_ptr, memory_kind, xla_hlo_sharding) ==
    [devices |-> devices_ptr, memory_kind |-> memory_kind,
     xla_hlo_sharding |-> xla_hlo_sharding, hash_ |-> kUnsetHash]

\* The state after nlists DeviceLists and nshard HloShardings over them
\* were created, hashed by the threads in thr.
InitHash(thr, nlists, nshard) ==
    /\ hs_seed \in HashValues
    /\ hs_lists \in [1 .. nlists -> HashDeviceLists]
    /\ hs_shardings \in [1 .. nshard ->
           {NewHloSharding(p, mk, ts) : p \in 1 .. nlists,
                                        mk \in 0 .. MaxMemoryKind,
                                        ts \in 0 .. MaxTilingSpec}]
    /\ hs_threads = thr
    /\ h_pc = [t \in thr |-> "idle"]
    /\ h_target = [t \in thr |-> 1]
    /\ h_hash = [t \in thr |-> kUnsetHash]
    /\ h_calls = [t \in thr |-> 0]
    /\ hs_stored = <<>>
    /\ hs_combined = {}

IdleHash ==
    /\ hs_seed = 0
    /\ hs_lists = <<>>
    /\ hs_shardings = <<>>
    /\ hs_threads = {}
    /\ h_pc = <<>>
    /\ h_target = <<>>
    /\ h_hash = <<>>
    /\ h_calls = <<>>
    /\ hs_stored = <<>>
    /\ hs_combined = {}

\* uint64_t hash = hash_.load(relaxed); if (hash == kUnsetHash) ...
Hash_Load(t, s) ==
    /\ h_pc[t] = "idle"
    /\ h_calls[t] < MaxHashCalls
    /\ h_target' = [h_target EXCEPT ![t] = s]
    /\ h_hash' = [h_hash EXCEPT ![t] = hs_shardings[s].hash_]
    /\ h_pc' = [h_pc EXCEPT ![t] =
           IF hs_shardings[s].hash_ = kUnsetHash THEN "compute" ELSE "combine"]
    /\ UNCHANGED <<hs_lists, hs_shardings, hs_threads, h_calls, hs_stored,
                   hs_combined, hs_seed>>
    /\ UNCHANGED notHS

\* hash = absl::HashOf(...); if (hash == kUnsetHash) ++hash;
Hash_Compute(t) ==
    /\ h_pc[t] = "compute"
    /\ LET s == hs_shardings[h_target[t]]
       IN  h_hash' = [h_hash EXCEPT ![t] =
               AdjustHash(AbslHashOf(hs_seed, s.devices, s.memory_kind,
                                     s.xla_hlo_sharding))]
    /\ h_pc' = [h_pc EXCEPT ![t] = "store"]
    /\ UNCHANGED <<hs_lists, hs_shardings, hs_threads, h_target, h_calls,
                   hs_stored, hs_combined, hs_seed>>
    /\ UNCHANGED notHS

\* hash_.store(hash, relaxed);
Hash_Store(t) ==
    /\ h_pc[t] = "store"
    /\ hs_shardings' = [hs_shardings EXCEPT ![h_target[t]].hash_ = h_hash[t]]
    /\ hs_stored' = Append(hs_stored, <<h_target[t], h_hash[t]>>)
    /\ h_pc' = [h_pc EXCEPT ![t] = "combine"]
    /\ UNCHANGED <<hs_lists, hs_threads, h_target, h_hash, h_calls,
                   hs_combined, hs_seed>>
    /\ UNCHANGED notHS

\* absl::HashState::combine(std::move(state), hash);
Hash_Combine(t) ==
    /\ h_pc[t] = "combine"
    /\ hs_combined' = hs_combined \cup {<<h_target[t], h_hash[t]>>}
    /\ h_calls' = [h_calls EXCEPT ![t] = @ + 1]
    /\ h_pc' = [h_pc EXCEPT ![t] = "idle"]
    /\ UNCHANGED <<hs_lists, hs_shardings, hs_threads, h_target, h_hash,
                   hs_stored, hs_seed>>
    /\ UNCHANGED notHS

NextHash ==
    \/ \E t \in hs_threads : \E s \in DOMAIN hs_shardings : Hash_Load(t, s)
    \/ \E t \in hs_threads : Hash_Compute(t)
    \/ \E t \in hs_threads : Hash_Store(t)
    \/ \E t \in hs_threads : Hash_Combine(t)

(***************************************************************************)
(* ShardingParam::LocalShapeFromGlobalShape / GlobalShapeFromLocalShape    *)
(***************************************************************************)
\* a call result: the status, the shape returned with OK, and the dimension
\* an error message names (-1: none)
NoResult == [status |-> "none", shape |-> <<>>, dim |-> -1]

Failure(status) == [status |-> status, shape |-> <<>>, dim |-> -1]

\* InvalidArgumentError("... not divisible ... in dimension ", i, ...)
NotDivisible(i) == [status |-> "INVALID_ARGUMENT", shape |-> <<>>, dim |-> i]

Success(shape) == [status |-> "OK", shape |-> shape, dim |-> -1]

\* The loop of LocalShapeFromGlobalShape from iteration i on (1-based), with
\* local_shape = acc. It runs over dim_shards and never looks at the rank of
\* global_shape: global_shape[i] past the end is an out-of-range read (any
\* value, or a fault), and num_shards[i] = 0 is a division by zero (a trap,
\* or any remainder and quotient).
RECURSIVE LocalShapeLoop(_, _, _, _)
LocalShapeLoop(num_shards, global_shape, i, acc) ==
    IF i > Len(num_shards)
    THEN {Success(acc)}
    ELSE LET in_range == i <= Len(global_shape)
             reads == IF in_range THEN {global_shape[i]} ELSE 0 .. MaxDim
             Step(v) ==
                 IF num_shards[i] = 0
                 THEN {Failure("SIGFPE"), NotDivisible(i - 1)}
                      \cup UNION {LocalShapeLoop(num_shards, global_shape,
                                                 i + 1, Append(acc, q)) :
                                  q \in 0 .. MaxDim}
                 ELSE IF v % num_shards[i] # 0
                      THEN {NotDivisible(i - 1)}
                      ELSE LocalShapeLoop(num_shards, global_shape, i + 1,
                                          Append(acc, v \div num_shards[i]))
         IN  (IF in_range THEN {} ELSE {Failure("SIGSEGV")})
             \cup UNION {Step(v) : v \in reads}

\* every result a LocalShapeFromGlobalShape(global_shape) call can have
LocalShapeFromGlobalShape(ds, global_shape) ==
    LocalShapeLoop(ds, global_shape, 1, <<>>)

\* Mutant: the local shape is returned unscaled.
GlobalShapeFromLocalShape_Unscaled(ds, local_shape) ==
    IF Len(local_shape) # Len(ds)
    THEN Failure("INVALID_ARGUMENT")
    ELSE Success(local_shape)

\* GlobalShapeFromLocalShape(local_shape); the products of the model stay
\* far below 2^63, so int64_t multiplication does not wrap here
GlobalShapeFromLocalShape(ds, local_shape) ==
    IF Len(local_shape) # Len(ds)
    THEN Failure("INVALID_ARGUMENT")
    ELSE Success([i \in 1 .. Len(ds) |-> ds[i] * local_shape[i]])

Shapes == SeqsUpTo(0 .. MaxDim, MaxShapeRank)

\* A ShardingParam (of any dim_shards the constructor takes) and a shape.
InitShape ==
    /\ dim_shards \in SeqsUpTo(0 .. MaxShard, MaxShapeRank)
    /\ permutation = <<0>>
    /\ axis_sizes = <<Product(dim_shards)>>
    /\ verify_status = "none"
    /\ out_devices = <<>>
    /\ tdl_calls = 0
    /\ tdl_ub = FALSE
    /\ sh_shape \in Shapes
    /\ sh_local = NoResult
    /\ sh_global = NoResult
    /\ sh_global_direct = NoResult

IdleShape ==
    /\ sh_shape = <<>>
    /\ sh_local = NoResult
    /\ sh_global = NoResult
    /\ sh_global_direct = NoResult

\* param.LocalShapeFromGlobalShape(sh_shape)
CallLocalShapeFromGlobalShape ==
    /\ sh_local = NoResult
    /\ sh_local' \in LocalShapeFromGlobalShape(dim_shards, sh_shape)
    /\ UNCHANGED <<sh_shape, sh_global, sh_global_direct>>
    /\ UNCHANGED notSH

\* param.GlobalShapeFromLocalShape(l) on the local shape just computed
CallGlobalShapeFromLocalShape ==
    /\ sh_local.status = "OK"
    /\ sh_global = NoResult
    /\ sh_global' = GlobalShapeFromLocalShape(dim_shards, sh_local.shape)
    /\ UNCHANGED <<sh_shape, sh_local, sh_global_direct>>
    /\ UNCHANGED notSH

\* param.GlobalShapeFromLocalShape(sh_shape) on the caller's shape
CallGlobalShapeOfShape ==
    /\ sh_global_direct = NoResult
    /\ sh_global_direct' = GlobalShapeFromLocalShape(dim_shards, sh_shape)
    /\ UNCHANGED <<sh_shape, sh_local, sh_global>>
    /\ UNCHANGED notSH

NextShape ==
    \/ CallLocalShapeFromGlobalShape
    \/ CallGlobalShapeFromLocalShape
    \/ CallGlobalShapeOfShape

(***************************************************************************)
(* HloSharding::IndexDomains                                               *)
(*                                                                         *)
(* An xla::HloSharding is a record: kind ("replicated", "maximal",         *)
(* "manual", "unknown" or "tiled"), tile_dims (the dimensions of the tile  *)
(* assignment, subgroup dimensions last), tile_devices (the tile           *)
(* assignment in row-major order, device indices from 0) and               *)
(* subgroup_types. An IndexDomain is a record of origin and shape.         *)
(***************************************************************************)
Min(a, b) == IF a < b THEN a ELSE b

\* xla::CeilOfRatio
CeilOfRatio(a, b) == (a + b - 1) \div b

IsManual(h) == h.kind = "manual"

IsUnknown(h) == h.kind = "unknown"

IsReplicated(h) == h.kind = "replicated"

\* a replicated sharding is tile-maximal as well
IsTileMaximal(h) == h.kind \in {"replicated", "maximal"}

IsTiled(h) == ~IsTileMaximal(h) /\ ~IsManual(h) /\ ~IsUnknown(h)

TiledDataRank(h) == Len(h.tile_dims) - Len(h.subgroup_types)

\* tile_assignment().num_elements(), TotalNumTiles()
NumTiles(h) == Product(h.tile_dims)

\* the index, along dimension i of 1 .. Len(dims), of the element at row-major
\* position pos (from 0) of an array with dimensions dims
IndexAt(dims, pos, i) ==
    (pos \div Product(SubSeq(dims, i + 1, Len(dims)))) % dims[i]

\* xla::HloSharding::TileIndexForDevice: the data-dimension indices of the
\* tile that holds device
TileIndexForDevice(h, device) ==
    LET p == CHOOSE q \in DOMAIN h.tile_devices : h.tile_devices[q] = device
    IN  [i \in 1 .. TiledDataRank(h) |-> IndexAt(h.tile_dims, p - 1, i)]

\* the offset and limit of the tile with data-dimension indices index
TileOffset(h, dims, index) ==
    [i \in 1 .. Len(dims) |->
        Min(index[i] * CeilOfRatio(dims[i], h.tile_dims[i]), dims[i])]

TileLimit(h, dims, index) ==
    [i \in 1 .. Len(dims) |->
        Min((index[i] + 1) * CeilOfRatio(dims[i], h.tile_dims[i]), dims[i])]

\* TileOffsetForDevice / TileLimitForDevice CHECK-fail on a manual or unknown
\* sharding, on a rank that is not TiledDataRank() and on a device that the
\* tile assignment does not hold
TileQueryAborts(h, dims, device) ==
    \/ IsManual(h)
    \/ IsUnknown(h)
    \/ /\ ~IsTileMaximal(h)
       /\ \/ Len(dims) # TiledDataRank(h)
          \/ \A q \in DOMAIN h.tile_devices : h.tile_devices[q] # device

\* xla::HloSharding::TileOffsetForDevice(shape, device)
TileOffsetForDevice(h, dims, device) ==
    IF IsTileMaximal(h)
    THEN [i \in 1 .. Len(dims) |-> 0]
    ELSE TileOffset(h, dims, TileIndexForDevice(h, device))

\* xla::HloSharding::TileLimitForDevice(shape, device)
TileLimitForDevice(h, dims, device) ==
    IF IsTileMaximal(h)
    THEN dims
    ELSE TileLimit(h, dims, TileIndexForDevice(h, device))

\* IndexDomain(Index origin, Shape shape)
IndexDomain(origin, shape) == [origin |-> origin, shape |-> shape]

\* Mutant: the one-argument constructor sets a zero origin of the shape's rank.
IndexDomainOfShape_Zeros(shape) ==
    [origin |-> [i \in 1 .. Len(shape) |-> 0], shape |-> shape]

\* IndexDomain(const Shape& shape) : origin_(), shape_(shape) {}
\* of xla_shardings.cpp: the origin is value-initialised, an Index of no
\* elements whatever the rank of the shape.
IndexDomainOfShape(shape) == [origin |-> <<>>, shape |-> shape]

NoDomains == [status |-> "none", domains |-> <<>>, path |-> "none"]

DomainsResult(status, domains, path) ==
    [status |-> status, domains |-> domains, path |-> path]

\* the devices of devs (in order) that the semantics keeps
KeptIndices(devs, addressable, semantics) ==
    SelectSeq([i \in 1 .. Len(devs) |-> i],
              LAMBDA i : semantics = "kAllShards" \/ addressable[devs[i]])

\* IndexDomainsSlowPath(hlo_sharding, devices, shape, semantics): device_idx
\* runs from 0; origin and shard_shape have the rank of the shape
IndexDomainsSlowPath(h, devs, addressable, shape, semantics) ==
    LET kept == KeptIndices(devs, addressable, semantics)
    IN  IF \E k \in DOMAIN kept : TileQueryAborts(h, shape, kept[k] - 1)
        THEN DomainsResult("CHECK_FAIL", <<>>, "slow")
        ELSE DomainsResult("OK",
                 [k \in DOMAIN kept |->
                    LET tile_offset == TileOffsetForDevice(h, shape, kept[k] - 1)
                        tile_limit == TileLimitForDevice(h, shape, kept[k] - 1)
                    IN  IndexDomain(
                            [i \in 1 .. Len(shape) |-> tile_offset[i]],
                            [i \in 1 .. Len(shape) |->
                                tile_limit[i] - tile_offset[i]])],
                 "slow")

\* xla::HloSharding::EachTile with the lambda of IndexDomains: all[device] is
\* set for every element of the tile assignment
EachTile(h, shape) ==
    [device \in 0 .. NumTiles(h) - 1 |->
        LET index == TileIndexForDevice(h, device)
            tile_offset == TileOffset(h, shape, index)
            tile_limit == TileLimit(h, shape, index)
        IN  IndexDomain(tile_offset,
                        [i \in 1 .. Len(shape) |->
                            tile_limit[i] - tile_offset[i]])]

\* HloSharding::IndexDomains(shape, single_device_shard_semantics)
IndexDomains(h, devs, addressable, shape, semantics) ==
    LET num_devices == Len(devs)
    IN  IF IsManual(h)
        THEN DomainsResult("INVALID_ARGUMENT", <<>>, "fast")
        ELSE IF IsReplicated(h) \/ IsTileMaximal(h)
        THEN LET element == IndexDomainOfShape(shape)
                 count == IF semantics = "kAllShards"
                          THEN num_devices
                          ELSE Len(AddressableDevices(devs, addressable))
             IN  DomainsResult("OK", [k \in 1 .. count |-> element], "fast")
        ELSE IF ~IsTiled(h)
        THEN IndexDomainsSlowPath(h, devs, addressable, shape, semantics)
        ELSE IF \E k \in DOMAIN h.subgroup_types :
                   h.subgroup_types[k] # "REPLICATED"
        THEN IndexDomainsSlowPath(h, devs, addressable, shape, semantics)
        ELSE IF NumTiles(h) # num_devices
        THEN DomainsResult("INVALID_ARGUMENT", <<>>, "fast")
        ELSE IF Len(shape) # TiledDataRank(h)
        THEN DomainsResult("INVALID_ARGUMENT", <<>>, "fast")
        ELSE LET all == EachTile(h, shape)
                 kept == KeptIndices(devs, addressable, semantics)
             IN  DomainsResult("OK",
                               [k \in DOMAIN kept |-> all[kept[k] - 1]],
                               "fast")

\* the tile assignments of at most MaxDevices tiles
TileDims ==
    {d \in SeqsUpTo(1 .. MaxDevices, MaxShapeRank + 1) :
        Len(d) >= 1 /\ Product(d) <= MaxDevices}

\* the orders in which n devices can be assigned to n tiles
TileDevices(n) ==
    {f \in [1 .. n -> 0 .. n - 1] :
        \A i, j \in 1 .. n : i # j => f[i] # f[j]}

\* the xla::HloSharding values: Replicate(), Manual(), Unknown(),
\* AssignDevice(d), and tilings without or with one subgroup dimension
HloShardings ==
    {[kind |-> k, tile_dims |-> <<>>, tile_devices |-> <<>>,
      subgroup_types |-> <<>>] : k \in {"replicated", "manual", "unknown"}}
    \cup
    {[kind |-> "maximal", tile_dims |-> <<1>>, tile_devices |-> <<d>>,
      subgroup_types |-> <<>>] : d \in 0 .. MaxDevices - 1}
    \cup
    UNION {{[kind |-> "tiled", tile_dims |-> d, tile_devices |-> f,
             subgroup_types |-> g] :
                f \in TileDevices(Product(d)),
                g \in {<<>>, <<"REPLICATED">>, <<"MANUAL">>}} :
           d \in TileDims}

\* An HloSharding over the devices 1 .. n, a shape and a semantics argument.
\* HloSharding::Create CHECKs that the device list is not empty.
InitIndexDomains ==
    /\ id_sharding \in HloShardings
    /\ \E n \in 1 .. MaxDevices : id_devices = [i \in 1 .. n |-> i]
    /\ id_addressable \in [Devices -> BOOLEAN]
    /\ id_shape \in Shapes
    /\ id_semantics \in {"kAddressableShards", "kAllShards"}
    /\ id_memory_kind = 0
    /\ id_fast = NoDomains
    /\ id_slow = NoDomains

IdleID ==
    /\ id_sharding = <<>>
    /\ id_devices = <<>>
    /\ id_addressable = <<>>
    /\ id_shape = <<>>
    /\ id_semantics = "kAllShards"
    /\ id_memory_kind = 0
    /\ id_fast = NoDomains
    /\ id_slow = NoDomains

\* sharding.IndexDomains(id_shape, id_semantics)
CallIndexDomains ==
    /\ id_fast = NoDomains
    /\ id_fast' = IndexDomains(id_sharding, id_devices, id_addressable,
                               id_shape, id_semantics)
    /\ UNCHANGED <<id_sharding, id_devices, id_addressable, id_shape,
                   id_semantics, id_memory_kind, id_slow>>
    /\ UNCHANGED notID

\* TEST_HloShardingIndexDomainsSlowPath(sharding, id_shape, id_semantics)
CallIndexDomainsSlowPath ==
    /\ id_slow = NoDomains
    /\ id_slow' = IndexDomainsSlowPath(id_sharding, id_devices, id_addressable,
                                       id_shape, id_semantics)
    /\ UNCHANGED <<id_sharding, id_devices, id_addressable, id_shape,
                   id_semantics, id_memory_kind, id_fast>>
    /\ UNCHANGED notID

NextIndexDomains == CallIndexDomains \/ CallIndexDomainsSlowPath

(***************************************************************************)
(* HloSharding::GetShardShape and HloSharding::Disassemble                 *)
(***************************************************************************)
\* Mutant: the shard dimensions are rounded down.
GetShardShape_Floor(h, devs, shape) ==
    IF IsTileMaximal(h) \/ IsManual(h) \/ IsUnknown(h)
    THEN Success(shape)
    ELSE IF NumTiles(h) # Len(devs)
    THEN Failure("INVALID_ARGUMENT")
    ELSE IF Len(shape) # TiledDataRank(h)
    THEN Failure("INVALID_ARGUMENT")
    ELSE Success([i \in 1 .. Len(shape) |-> shape[i] \div h.tile_dims[i]])

\* HloSharding::GetShardShape(shape). None of the modelled xla::HloSharding
\* values is unreduced.
GetShardShape(h, devs, shape) ==
    IF IsTileMaximal(h) \/ IsManual(h) \/ IsUnknown(h)
    THEN Success(shape)
    ELSE IF NumTiles(h) # Len(devs)
    THEN Failure("INVALID_ARGUMENT")
    ELSE IF Len(shape) # TiledDataRank(h)
    THEN Failure("INVALID_ARGUMENT")
    ELSE Success([i \in 1 .. Len(shape) |->
                     CeilOfRatio(shape[i], h.tile_dims[i])])

\* HloSharding::IndexDomains(shape)
IndexDomainsDefault(h, devs, addressable, shape) ==
    IndexDomains(h, devs, addressable, shape, "kAllShards")

NoShards == [status |-> "none", shards |-> <<>>]

ShardsResult(status, shards) == [status |-> status, shards |-> shards]

\* SingleDeviceSharding::Create(device, memory_kind): a sharding of the one
\* device, of the memory kind given
SingleDeviceShardingCreate(device, memory_kind) ==
    [devices |-> <<device>>, memory_kind |-> memory_kind]

\* the pair {shard shape, SingleDeviceSharding::Create(device, memory_kind_)}
Shard(shape, device, memory_kind) ==
    [shape |-> shape, device |-> device,
     sharding |-> SingleDeviceShardingCreate(device, memory_kind)]

\* Disassemble: is_even_sharding for a tiled sharding of the right rank
EvenlyTiled(h, shape) ==
    \A i \in 1 .. TiledDataRank(h) : shape[i] % h.tile_dims[i] = 0

\* Disassemble: the fast path for even sharding
DisassembleEven(h, devs, addressable, memory_kind, shape, semantics) ==
    LET shard_shape == GetShardShape(h, devs, shape)
        kept == KeptIndices(devs, addressable, semantics)
    IN  IF shard_shape.status # "OK"
        THEN ShardsResult(shard_shape.status, <<>>)
        ELSE ShardsResult("OK",
                 [k \in DOMAIN kept |->
                     Shard(shard_shape.shape, devs[kept[k]], memory_kind)])

\* Mutant: the k-th shard kept takes the shape of the k-th domain.
DisassembleUneven_Unfiltered(h, devs, addressable, memory_kind, shape, semantics) ==
    LET index_domains == IndexDomainsDefault(h, devs, addressable, shape)
        kept == KeptIndices(devs, addressable, semantics)
    IN  IF index_domains.status # "OK"
        THEN ShardsResult(index_domains.status, <<>>)
        ELSE ShardsResult("OK",
                 [k \in DOMAIN kept |->
                     Shard(index_domains.domains[k].shape,
                           devs[kept[k]], memory_kind)])

\* Disassemble: the slow path for uneven sharding, on IndexDomains(shape)
DisassembleUneven(h, devs, addressable, memory_kind, shape, semantics) ==
    LET index_domains == IndexDomainsDefault(h, devs, addressable, shape)
        kept == KeptIndices(devs, addressable, semantics)
    IN  IF index_domains.status # "OK"
        THEN ShardsResult(index_domains.status, <<>>)
        ELSE IF Len(index_domains.domains) # Len(devs)
        THEN ShardsResult("CHECK_FAIL", <<>>)
        ELSE ShardsResult("OK",
                 [k \in DOMAIN kept |->
                     Shard(index_domains.domains[kept[k]].shape,
                           devs[kept[k]], memory_kind)])

\* HloSharding::Disassemble(shape, single_device_shard_semantics)
Disassemble(h, devs, addressable, memory_kind, shape, semantics) ==
    IF IsReplicated(h) \/ IsTileMaximal(h)
    THEN DisassembleEven(h, devs, addressable, memory_kind, shape, semantics)
    ELSE IF IsTiled(h)
    THEN IF Len(shape) # TiledDataRank(h)
         THEN ShardsResult("INVALID_ARGUMENT", <<>>)
         ELSE IF EvenlyTiled(h, shape)
         THEN DisassembleEven(h, devs, addressable, memory_kind, shape, semantics)
         ELSE DisassembleUneven(h, devs, addressable, memory_kind, shape, semantics)
    ELSE IF IsManual(h)
    THEN DisassembleEven(h, devs, addressable, memory_kind, shape, semantics)
    ELSE DisassembleUneven(h, devs, addressable, memory_kind, shape, semantics)

\* HloSharding::Disassemble(shape)
DisassembleDefault(h, devs, addressable, memory_kind, shape) ==
    Disassemble(h, devs, addressable, memory_kind, shape, "kAllShards")

IdleSD ==
    /\ sd_shard_shape = NoResult
    /\ sd_default_domains = NoDomains
    /\ sd_shards = NoShards
    /\ sd_default_shards = NoShards

\* sharding.GetShardShape(id_shape)
CallGetShardShape ==
    /\ sd_shard_shape = NoResult
    /\ sd_shard_shape' = GetShardShape(id_sharding, id_devices, id_shape)
    /\ UNCHANGED <<sd_default_domains, sd_shards, sd_default_shards>>
    /\ UNCHANGED <<idVars, notHlo>>

\* sharding.IndexDomains(id_shape)
CallIndexDomainsDefault ==
    /\ sd_default_domains = NoDomains
    /\ sd_default_domains' =
           IndexDomainsDefault(id_sharding, id_devices, id_addressable, id_shape)
    /\ UNCHANGED <<sd_shard_shape, sd_shards, sd_default_shards>>
    /\ UNCHANGED <<idVars, notHlo>>

\* sharding.Disassemble(id_shape, id_semantics)
CallDisassemble ==
    /\ sd_shards = NoShards
    /\ sd_shards' = Disassemble(id_sharding, id_devices, id_addressable,
                                id_memory_kind, id_shape, id_semantics)
    /\ UNCHANGED <<sd_shard_shape, sd_default_domains, sd_default_shards>>
    /\ UNCHANGED <<idVars, notHlo>>

\* sharding.Disassemble(id_shape)
CallDisassembleDefault ==
    /\ sd_default_shards = NoShards
    /\ sd_default_shards' =
           DisassembleDefault(id_sharding, id_devices, id_addressable,
                              id_memory_kind, id_shape)
    /\ UNCHANGED <<sd_shard_shape, sd_default_domains, sd_shards>>
    /\ UNCHANGED <<idVars, notHlo>>

\* the calls with and without a semantics argument
NextSemantics ==
    \/ CallIndexDomains
    \/ CallIndexDomainsDefault
    \/ CallDisassemble
    \/ CallDisassembleDefault

\* the shapes disassembled: of dimensions that the tilings divide evenly and
\* unevenly
DisassembleShapes == SeqsUpTo({3, 4}, MaxShapeRank)

\* An HloSharding without or with a memory kind, a shape and a semantics
\* argument; the Devices that are not in the list are left addressable.
InitDisassemble ==
    /\ id_sharding \in HloShardings
    /\ \E n \in 1 .. MaxDevices :
          /\ id_devices = [i \in 1 .. n |-> i]
          /\ id_addressable \in [Devices -> BOOLEAN]
          /\ \A d \in Devices : d > n => id_addressable[d]
    /\ id_shape \in DisassembleShapes
    /\ id_semantics \in {"kAddressableShards", "kAllShards"}
    /\ id_memory_kind \in {0, MaxMemoryKind}
    /\ id_fast = NoDomains
    /\ id_slow = NoDomains

\* Disassemble and IndexDomains on the same inputs
NextDisassemble == CallIndexDomains \/ CallDisassemble

\* An HloSharding whose devices are all addressable.
InitShardShape ==
    /\ InitIndexDomains
    /\ id_semantics = "kAllShards"
    /\ \A d \in Devices : id_addressable[d]

NextShardShape == CallGetShardShape

(***************************************************************************)
(* HloSharding::Create, HasSamePartitioning, WithDeviceAssignment          *)
(*                                                                         *)
(* A MemoryKind is 0 (no kind given) or one of the kinds 1 ..              *)
(* MaxMemoryKind; an xla::HloSharding is one of 0 .. MaxTilingSpec.        *)
(***************************************************************************)
\* MemoryKind(): memory_kind().has_value() is false
UnspecifiedKind == 0

\* CanonicalizeMemoryKind(memory_kind, device): a given kind is kept, no kind
\* becomes the kind of the device's default memory, if it has one
CanonicalizeMemoryKind(memory_kind, device, default_kind) ==
    IF memory_kind # UnspecifiedKind
    THEN memory_kind
    ELSE default_kind[device]

\* Mutant: the memory kind is stored as given.
CreateHloSharding_AsGiven(devices, memory_kind, xla_hlo_sharding, default_kind) ==
    [devices |-> devices, memory_kind |-> memory_kind,
     xla_hlo_sharding |-> xla_hlo_sharding]

\* HloSharding::Create(devices, memory_kind, xla_hlo_sharding) on a device
\* list that is not empty
CreateHloSharding(devices, memory_kind, xla_hlo_sharding, default_kind) ==
    [devices |-> devices,
     memory_kind |-> CanonicalizeMemoryKind(memory_kind, Head(devices),
                                            default_kind),
     xla_hlo_sharding |-> xla_hlo_sharding]

\* a.HasSamePartitioning(b) for two HloShardings
HasSamePartitioning(a, b) ==
    /\ Len(a.devices) = Len(b.devices)
    /\ a.xla_hlo_sharding = b.xla_hlo_sharding

\* std::optional arguments: std::nullopt for a memory kind and for a device
\* list, and a given value
NoKind == [has_value |-> FALSE, value |-> UnspecifiedKind]

NoDevices == [has_value |-> FALSE, value |-> <<>>]

Some(v) == [has_value |-> TRUE, value |-> v]

value_or(opt, v) == IF opt.has_value THEN opt.value ELSE v

NoSharding == [status |-> "none", sharding |-> <<>>]

\* sharding.WithDeviceAssignment(devices, memory_kind)
WithDeviceAssignment(sharding, devices, memory_kind, default_kind) ==
    IF devices.has_value /\ Len(devices.value) # Len(sharding.devices)
    THEN [status |-> "INVALID_ARGUMENT", sharding |-> <<>>]
    ELSE [status |-> "OK",
          sharding |-> CreateHloSharding(
                           value_or(devices, sharding.devices),
                           value_or(memory_kind, sharding.memory_kind),
                           sharding.xla_hlo_sharding, default_kind)]

\* the device lists a caller can build
AssignableLists == SeqsUpTo(Devices, MaxAssignLen)

\* An HloSharding made by Create over devices with any default memories.
InitWD ==
    /\ wd_default_kind \in [Devices -> 0 .. MaxMemoryKind]
    /\ wd_created \in [devices : AssignableLists \ {<<>>},
                       memory_kind : 0 .. MaxMemoryKind,
                       xla_hlo_sharding : 0 .. MaxTilingSpec]
    /\ wd_sharding = CreateHloSharding(wd_created.devices,
                                       wd_created.memory_kind,
                                       wd_created.xla_hlo_sharding,
                                       wd_default_kind)
    /\ wd_args = [devices |-> NoDevices, memory_kind |-> NoKind]
    /\ wd_result = NoSharding

IdleWD ==
    /\ wd_default_kind = <<>>
    /\ wd_created = <<>>
    /\ wd_sharding = <<>>
    /\ wd_args = <<>>
    /\ wd_result = NoSharding

\* wd_sharding.WithDeviceAssignment(devices, memory_kind); a const method
CallWithDeviceAssignment ==
    /\ wd_result = NoSharding
    /\ \E devices \in {NoDevices} \cup {Some(l) : l \in AssignableLists},
          memory_kind \in {NoKind} \cup {Some(k) : k \in 0 .. MaxMemoryKind} :
          /\ wd_args' = [devices |-> devices, memory_kind |-> memory_kind]
          /\ wd_result' = WithDeviceAssignment(wd_sharding, devices,
                                               memory_kind, wd_default_kind)
    /\ UNCHANGED <<wd_default_kind, wd_created, wd_sharding>>
    /\ UNCHANGED notWD

NextWD == CallWithDeviceAssignment

(***************************************************************************)
(* BoundedDynamicShapeTag and DynamicShape (shape.h, shape.cpp)            *)
(***************************************************************************)
NoTag == [status |-> "none", dynamic_dims |-> <<>>]

NoDynamicShape == [status |-> "none", shape |-> <<>>, tag |-> <<>>]

\* CHECK(absl::c_any_of(dynamic_dims_, [](bool b) { return b; }))
HasDynamicDim(dynamic_dims) ==
    \E i \in DOMAIN dynamic_dims : dynamic_dims[i]

\* BoundedDynamicShapeTag::BoundedDynamicShapeTag: the CHECK ends the
\* program ("ABORT") when no dimension is dynamic
BoundedDynamicShapeTag(dynamic_dims) ==
    IF HasDynamicDim(dynamic_dims)
    THEN [status |-> "OK", dynamic_dims |-> dynamic_dims]
    ELSE [status |-> "ABORT", dynamic_dims |-> <<>>]

\* DynamicShape::Create without its validation: the private constructor
DynamicShapeCreate_Unchecked(shape, tag) ==
    [status |-> "OK", shape |-> shape, tag |-> tag.dynamic_dims]

\* DynamicShape::Create: a StatusOr<DynamicShape>
DynamicShapeCreate(shape, tag) ==
    IF Len(tag.dynamic_dims) # Len(shape)
    THEN [status |-> "INVALID_ARGUMENT", shape |-> <<>>, tag |-> <<>>]
    ELSE [status |-> "OK", shape |-> shape, tag |-> tag.dynamic_dims]

InitDynamicShape ==
    /\ ds_dims = <<>>
    /\ ds_tag = NoTag
    /\ ds_shape = <<>>
    /\ ds_created = NoDynamicShape

IdleDS == InitDynamicShape

\* BoundedDynamicShapeTag tag(dynamic_dims)
ConstructTag ==
    /\ ds_tag = NoTag
    /\ \E dynamic_dims \in SeqsUpTo(BOOLEAN, MaxShapeRank) :
          /\ ds_dims' = dynamic_dims
          /\ ds_tag' = BoundedDynamicShapeTag(dynamic_dims)
    /\ UNCHANGED <<ds_shape, ds_created>>
    /\ UNCHANGED notDS

\* DynamicShape::Create(shape, tag), with a tag that was constructed
CallDynamicShapeCreate ==
    /\ ds_tag.status = "OK"
    /\ ds_created = NoDynamicShape
    /\ \E shape \in Shapes :
          /\ ds_shape' = shape
          /\ ds_created' = DynamicShapeCreate(shape, ds_tag)
    /\ UNCHANGED <<ds_dims, ds_tag>>
    /\ UNCHANGED notDS

NextDynamicShape == ConstructTag \/ CallDynamicShapeCreate

(***************************************************************************)
(* Index (index.h) and the Index of xla_shardings.cpp                      *)
(***************************************************************************)
\* the values of an int64_t, at the width IndexBits
IndexWords == -(2 ^ (IndexBits - 1)) .. (2 ^ (IndexBits - 1)) - 1

Indices == SeqsUpTo(IndexWords, MaxIndexRank)

\* a signed result that saturates at the ends of the range
Wrap_Saturate(x) ==
    IF x > 2 ^ (IndexBits - 1) - 1 THEN 2 ^ (IndexBits - 1) - 1
    ELSE IF x < -(2 ^ (IndexBits - 1)) THEN -(2 ^ (IndexBits - 1))
    ELSE x

\* the two's-complement value an int64_t operation leaves for the exact
\* result x
Wrap(x) ==
    ((x + 2 ^ (IndexBits - 1)) % (2 ^ IndexBits)) - 2 ^ (IndexBits - 1)

NoIndex == [status |-> "none", elements |-> <<>>, past_end |-> FALSE]

\* CHECK_EQ failed: the program is terminated
CheckFailed == [status |-> "ABORT", elements |-> <<>>, past_end |-> FALSE]

\* a build that traps on signed overflow terminated the program
Trapped(past_end) ==
    [status |-> "TRAP", elements |-> <<>>, past_end |-> past_end]

Returned(elements, past_end) ==
    [status |-> "OK", elements |-> elements, past_end |-> past_end]

\* the exact value of x op y for the operators +=, -= and *=
Apply(op, x, y) ==
    CASE op = "+" -> x + y
      [] op = "-" -> x - y
      [] op = "*" -> x * y

\* for (i = 0; i < elements_.size(); ++i) result[i] op= other[i]: signed
\* overflow is undefined, a build either wraps or traps
ElementWise(op, elements, other, past_end) ==
    LET exact == [i \in 1 .. Len(elements) |->
                     Apply(op, elements[i], other[i])]
    IN  IF \E i \in DOMAIN exact : exact[i] \notin IndexWords
        THEN {Returned([i \in DOMAIN exact |-> Wrap(exact[i])], past_end),
              Trapped(past_end)}
        ELSE {Returned(exact, past_end)}

\* index.h: CHECK_EQ(elements_.size(), offset.elements_.size()), then the loop
CheckedOp(op, elements, other) ==
    IF Len(elements) # Len(other)
    THEN {CheckFailed}
    ELSE ElementWise(op, elements, other, FALSE)

\* Index::operator+
IndexPlus(elements, offset) == CheckedOp("+", elements, offset)

\* Index::operator-
IndexMinus(elements, offset) == CheckedOp("-", elements, offset)

\* Index::operator*
IndexTimes(elements, multiplier) == CheckedOp("*", elements, multiplier)

\* the operator a caller wrote
IndexOp(op, elements, other) ==
    CASE op = "+" -> IndexPlus(elements, other)
      [] op = "-" -> IndexMinus(elements, other)
      [] op = "*" -> IndexTimes(elements, other)

\* xla_shardings.cpp Index::operator*: no length check; dims[i] is read for
\* every i < elements_.size(). Past the end of dims the read is undefined:
\* a hardened absl::Span terminates the program, any other build goes on
\* with whatever word is there. Elements of a longer dims are ignored.
LocalIndexTimes(elements, dims) ==
    IF Len(dims) < Len(elements)
    THEN {Trapped(TRUE)} \cup
         UNION {ElementWise("*", elements, dims \o pad, TRUE) :
                   pad \in [1 .. Len(elements) - Len(dims) -> IndexWords]}
    ELSE ElementWise("*", elements, SubSeq(dims, 1, Len(elements)),
                     FALSE)

\* the operands of the Index of xla_shardings.cpp: tile indices and extents
LocalIndices == SeqsUpTo(0 .. 1, MaxIndexRank)

InitIndex ==
    /\ ix_local \in BOOLEAN
    /\ ix_a \in (IF ix_local THEN LocalIndices ELSE Indices)
    /\ ix_b \in (IF ix_local THEN LocalIndices ELSE Indices)
    /\ ix_op = <<>>
    /\ ix_first = NoIndex
    /\ ix_second = NoIndex

IdleIX ==
    /\ ix_local = FALSE
    /\ ix_a = <<>>
    /\ ix_b = <<>>
    /\ ix_op = <<>>
    /\ ix_first = NoIndex
    /\ ix_second = NoIndex

\* apply + or - of index.h's Index: to ix_a, or the other of the two to the
\* value the first operator returned
ApplyIndexOp(op) ==
    /\ ~ix_local
    /\ \/ /\ ix_first = NoIndex
          /\ ix_first' \in IndexOp(op, ix_a, ix_b)
          /\ UNCHANGED ix_second
       \/ /\ ix_first.status = "OK"
          /\ ix_second = NoIndex
          /\ ix_op[1] # op
          /\ ix_second' \in IndexOp(op, ix_first.elements, ix_b)
          /\ UNCHANGED ix_first
    /\ ix_op' = Append(ix_op, op)
    /\ UNCHANGED <<ix_local, ix_a, ix_b>>
    /\ UNCHANGED notIX

\* a + b
CallIndexPlus == ApplyIndexOp("+")

\* a - b
CallIndexMinus == ApplyIndexOp("-")

\* a * b.elements()
CallIndexTimes ==
    /\ ~ix_local
    /\ ix_first = NoIndex
    /\ ix_first' \in IndexTimes(ix_a, ix_b)
    /\ ix_op' = Append(ix_op, "*")
    /\ UNCHANGED <<ix_local, ix_a, ix_b, ix_second>>
    /\ UNCHANGED notIX

\* a * dims on the Index of xla_shardings.cpp
CallLocalIndexTimes ==
    /\ ix_local
    /\ ix_first = NoIndex
    /\ ix_first' \in LocalIndexTimes(ix_a, ix_b)
    /\ ix_op' = Append(ix_op, "*")
    /\ UNCHANGED <<ix_local, ix_a, ix_b, ix_second>>
    /\ UNCHANGED notIX

NextIndex ==
    CallIndexPlus \/ CallIndexMinus \/ CallIndexTimes \/ CallLocalIndexTimes

(***************************************************************************)
(* IndexDomain (index_domain.h)                                            *)
(***************************************************************************)
\* the values of an int64_t origin element, at the width DomainBits
DomainWords == -(2 ^ (DomainBits - 1)) .. (2 ^ (DomainBits - 1)) - 1

\* the two's-complement value an int64_t operation leaves for the exact x
DomainWrap(x) ==
    ((x + 2 ^ (DomainBits - 1)) % (2 ^ DomainBits)) - 2 ^ (DomainBits - 1)

\* the elements an origin is drawn from, the ends of the range among them
OriginWords == {-(2 ^ (DomainBits - 1)), 2, 3, (2 ^ (DomainBits - 1)) - 1}

\* the elements an offset is drawn from
OffsetWords == {10, 20, (2 ^ (DomainBits - 1)) - 1}

\* the shapes a domain is drawn from
DomainShapes == SeqsUpTo({4, 5}, MaxDomainRank)

NoDomain == [status |-> "none", origin |-> <<>>, shape |-> <<>>]

\* origin_ + offset / origin_ - offset (Index::operator+ / operator-):
\* CHECK_EQ on the sizes ends the program, signed overflow wraps or traps
ShiftOrigin(op, origin, offset) ==
    IF Len(origin) # Len(offset)
    THEN {[status |-> "ABORT", origin |-> <<>>]}
    ELSE LET exact == [i \in 1 .. Len(origin) |->
                          Apply(op, origin[i], offset[i])]
         IN  IF \E i \in DOMAIN exact : exact[i] \notin DomainWords
             THEN {[status |-> "OK",
                    origin |-> [i \in DOMAIN exact |-> DomainWrap(exact[i])]],
                   [status |-> "TRAP", origin |-> <<>>]}
             ELSE {[status |-> "OK", origin |-> exact]}

\* a shift that moves the far corner too: the shape takes the offset as well
ShiftDomain_ShapeToo(op, d, offset) ==
    {[status |-> o.status, origin |-> o.origin,
      shape |-> IF o.status = "OK"
                THEN [i \in DOMAIN d.shape |->
                         IF i \in DOMAIN offset
                         THEN Apply(op, d.shape[i], offset[i])
                         ELSE d.shape[i]]
                ELSE <<>>] :
        o \in ShiftOrigin(op, d.origin, offset)}

\* IndexDomain::operator+ / operator-: IndexDomain(origin_ op offset, shape_);
\* operator+= / operator-=: origin_ op= offset, shape_ untouched
ShiftDomain(op, d, offset) ==
    {[status |-> o.status, origin |-> o.origin,
      shape |-> IF o.status = "OK" THEN d.shape ELSE <<>>] :
        o \in ShiftOrigin(op, d.origin, offset)}

\* the operator of Index that an operator of IndexDomain applies
OriginOp(op) == IF op \in {"+", "+="} THEN "+" ELSE "-"

InitDomain ==
    /\ dm_domain \in [status : {"OK"},
                      origin : SeqsUpTo(OriginWords, MaxDomainRank),
                      shape : DomainShapes]
    /\ dm_offset \in SeqsUpTo(OffsetWords, MaxDomainRank)
    /\ dm_op = <<>>
    /\ dm_first = NoDomain
    /\ dm_second = NoDomain

IdleDM ==
    /\ dm_domain = NoDomain
    /\ dm_offset = <<>>
    /\ dm_op = <<>>
    /\ dm_first = NoDomain
    /\ dm_second = NoDomain

\* apply one operator with dm_offset: to d, or to the domain the first
\* operator left
ApplyDomainOp(op) ==
    /\ \/ /\ dm_first = NoDomain
          /\ dm_first' \in ShiftDomain(OriginOp(op), dm_domain, dm_offset)
          /\ UNCHANGED dm_second
       \/ /\ dm_first.status = "OK"
          /\ dm_second = NoDomain
          /\ dm_second' \in ShiftDomain(OriginOp(op), dm_first, dm_offset)
          /\ UNCHANGED dm_first
    /\ dm_op' = Append(dm_op, op)
    /\ UNCHANGED <<dm_domain, dm_offset>>
    /\ UNCHANGED <<notUtil, mkVars, alVars, arVars, rfVars>>

\* d + offset
CallDomainPlus == ApplyDomainOp("+")

\* d - offset
CallDomainMinus == ApplyDomainOp("-")

\* d += offset
CallDomainPlusAssign == ApplyDomainOp("+=")

\* d -= offset
CallDomainMinusAssign == ApplyDomainOp("-=")

NextDomain ==
    \/ CallDomainPlus
    \/ CallDomainMinus
    \/ CallDomainPlusAssign
    \/ CallDomainMinusAssign

(***************************************************************************)
(* MemoryKind (memory.h, memory.cpp)                                       *)
(***************************************************************************)
\* the contents a memory kind string can have
KindStrings == {"", "device", "pinned_host"}

\* std::nullopt as the memory_kind argument
NoString == "(nullopt)"

\* a MemoryKind: memory_kind_ is nullopt (data = 0) or a view of the node at
\* address data; "from" remembers the constructor's argument
MemoryKind(from, data) == [from |-> from, data |-> data]

\* MemoryKind::operator==: both unset, or both set with the same data()
MemoryKindEq(a, b) ==
    \/ a.data = 0 /\ b.data = 0
    \/ a.data # 0 /\ b.data # 0 /\ a.data = b.data

\* a mutex that never makes a thread wait
MutexFree_Always == TRUE

\* absl::MutexLock lock(&global_set->mu) can be taken
MutexFree == mk_mu = 0

\* memory_kinds_set.find(content): the node holding it, 0 for end()
FindKind(set, content) ==
    IF \E a \in DOMAIN set : set[a] = content
    THEN CHOOSE a \in DOMAIN set : set[a] = content
    ELSE 0

InitMemoryKind(threads) ==
    /\ mk_set = <<>>
    /\ mk_mu = 0
    /\ mk_pc = [t \in threads |-> "idle"]
    /\ mk_arg = [t \in threads |-> NoString]
    /\ mk_it = [t \in threads |-> 0]
    /\ mk_made = {}
    /\ mk_calls = 0

IdleMK ==
    /\ mk_set = <<>>
    /\ mk_mu = 0
    /\ mk_pc = <<>>
    /\ mk_arg = <<>>
    /\ mk_it = <<>>
    /\ mk_made = {}
    /\ mk_calls = 0

\* MemoryKind(memory_kind): without a value the constructor returns at once
MK_Enter(t) ==
    /\ mk_pc[t] = "idle"
    /\ mk_calls < MaxKindCalls
    /\ mk_calls' = mk_calls + 1
    /\ \E memory_kind \in KindStrings \cup {NoString} :
          /\ mk_arg' = [mk_arg EXCEPT ![t] = memory_kind]
          /\ IF memory_kind = NoString
             THEN /\ mk_made' = mk_made \cup {MemoryKind(NoString, 0)}
                  /\ UNCHANGED mk_pc
             ELSE /\ mk_pc' = [mk_pc EXCEPT ![t] = "lock"]
                  /\ UNCHANGED mk_made
    /\ UNCHANGED <<mk_set, mk_mu, mk_it>>
    /\ UNCHANGED <<notUtil, dmVars, alVars, arVars, rfVars>>

\* absl::MutexLock lock(&global_set->mu)
MK_Lock(t) ==
    /\ mk_pc[t] = "lock"
    /\ MutexFree
    /\ mk_mu' = t
    /\ mk_pc' = [mk_pc EXCEPT ![t] = "find"]
    /\ UNCHANGED <<mk_set, mk_arg, mk_it, mk_made, mk_calls>>
    /\ UNCHANGED <<notUtil, dmVars, alVars, arVars, rfVars>>

\* auto it = global_set->memory_kinds_set.find(*memory_kind)
MK_Find(t) ==
    /\ mk_pc[t] = "find"
    /\ mk_it' = [mk_it EXCEPT ![t] = FindKind(mk_set, mk_arg[t])]
    /\ mk_pc' = [mk_pc EXCEPT ![t] = "assign"]
    /\ UNCHANGED <<mk_set, mk_mu, mk_arg, mk_made, mk_calls>>
    /\ UNCHANGED <<notUtil, dmVars, alVars, arVars, rfVars>>

\* it == end(): insert a copy and view the new node; else view *it. The
\* lock is released as the constructor returns.
MK_Assign(t) ==
    /\ mk_pc[t] = "assign"
    /\ IF mk_it[t] = 0
       THEN /\ mk_set' = Append(mk_set, mk_arg[t])
            /\ mk_made' = mk_made \cup
                             {MemoryKind(mk_arg[t], Len(mk_set) + 1)}
       ELSE /\ mk_made' = mk_made \cup {MemoryKind(mk_arg[t], mk_it[t])}
            /\ UNCHANGED mk_set
    /\ mk_mu' = 0
    /\ mk_pc' = [mk_pc EXCEPT ![t] = "idle"]
    /\ UNCHANGED <<mk_arg, mk_it, mk_calls>>
    /\ UNCHANGED <<notUtil, dmVars, alVars, arVars, rfVars>>

NextMemoryKind ==
    \E t \in DOMAIN mk_pc :
        MK_Enter(t) \/ MK_Lock(t) \/ MK_Find(t) \/ MK_Assign(t)

(***************************************************************************)
(* xft::memory::align_size, calculate_aligned_size (cpp/xft/memory.h)      *)
(***************************************************************************)
\* the values of a size_t, at the width SizeBits
SizeWords == 0 .. (2 ^ SizeBits) - 1

\* unsigned arithmetic modulo 2^SizeBits
SizeWrap(x) == x % (2 ^ SizeBits)

\* x & y on the low n bits
RECURSIVE BitAnd(_, _, _)
BitAnd(x, y, n) ==
    IF n = 0 THEN 0
    ELSE (x % 2) * (y % 2) + 2 * BitAnd(x \div 2, y \div 2, n - 1)

\* ~x on a size_t
BitNot(x) == (2 ^ SizeBits) - 1 - x

\* ((size + alignment - 1) / alignment) * alignment, the form of the comment
align_size_ByDivision(size, alignment) ==
    SizeWrap(((size + alignment - 1) \div alignment) * alignment)

\* return (size + alignment - 1) & ~(alignment - 1)
align_size(size, alignment) ==
    BitAnd(SizeWrap(size + alignment - 1),
           BitNot(SizeWrap(alignment - 1)), SizeBits)

\* size_t total = num_elements * element_size; return align_size(total, ..)
calculate_aligned_size(num_elements, element_size, alignment) ==
    align_size(SizeWrap(num_elements * element_size), alignment)

InitAlign ==
    /\ al_fn = "none"
    /\ al_args = <<>>
    /\ al_result = -1

IdleAL == InitAlign

\* align_size(size, alignment)
CallAlignSize ==
    /\ al_fn = "none"
    /\ \E size \in SizeWords, alignment \in SizeWords :
          /\ al_args' = <<size, alignment>>
          /\ al_result' = align_size(size, alignment)
    /\ al_fn' = "align_size"
    /\ UNCHANGED <<notUtil, dmVars, mkVars, arVars, rfVars>>

\* calculate_aligned_size(num_elements, element_size, alignment)
CallCalculateAlignedSize ==
    /\ al_fn = "none"
    /\ \E num_elements \in SizeWords, element_size \in 0 .. MaxElementSize,
          alignment \in SizeWords :
          /\ al_args' = <<num_elements, element_size, alignment>>
          /\ al_result' = calculate_aligned_size(num_elements, element_size,
                                                 alignment)
    /\ al_fn' = "calculate_aligned_size"
    /\ UNCHANGED <<notUtil, dmVars, mkVars, arVars, rfVars>>

NextAlign == CallAlignSize \/ CallCalculateAlignedSize

(***************************************************************************)
(* xft::Array created by allocation (cpp/xft/array.h, storage.h)           *)
(***************************************************************************)
\* constexpr size_t DEFAULT_ALIGNMENT = 32
DEFAULT_ALIGNMENT == 32

\* the largest size_t
SIZE_MAX == (2 ^ SizeBits) - 1

\* scalarTypeSize: sizeof(float), sizeof(double)
scalarTypeSize(dtype) == IF dtype = "Float32" THEN 4 ELSE 8

NoArray ==
    [status |-> "none", shape |-> <<>>, strides |-> <<>>, itemsize |-> 0,
     size_bytes |-> 0]

Thrown(what) ==
    [status |-> what, shape |-> <<>>, strides |-> <<>>, itemsize |-> 0,
     size_bytes |-> 0]

\* the constructor's loop over shape from position i on: the exception it
\* throws, or the element count
RECURSIVE TotalElements(_, _, _)
TotalElements(shape, i, total_elements) ==
    IF i > Len(shape) THEN [status |-> "OK", total |-> total_elements]
    ELSE IF shape[i] = 0 THEN [status |-> "invalid_argument", total |-> 0]
    ELSE IF total_elements > SIZE_MAX \div shape[i]
         THEN [status |-> "overflow_error", total |-> 0]
    ELSE TotalElements(shape, i + 1, total_elements * shape[i])

\* the running stride after the dimensions in order[1 .. k]
RECURSIVE StrideAfter(_, _, _, _)
StrideAfter(shape, element_size, order, k) ==
    IF k = 0 THEN element_size
    ELSE SizeWrap(StrideAfter(shape, element_size, order, k - 1)
                     * shape[order[k]])

\* Array::calculate_strides: C walks the dimensions from the last to the
\* first, F from the first to the last
calculate_strides(shape, element_size, order) ==
    LET n == Len(shape)
        visit == IF order = "C" THEN [k \in 1 .. n |-> n + 1 - k]
                 ELSE [k \in 1 .. n |-> k]
        rank_of(i) == CHOOSE k \in 1 .. n : visit[k] = i
    IN  [i \in 1 .. n |->
            StrideAfter(shape, element_size, visit, rank_of(i) - 1)]

\* strides that ignore the dimensions: every stride is the element size
calculate_strides_Flat(shape, element_size, order) ==
    [i \in 1 .. Len(shape) |-> element_size]

\* Array(shape, dtype, order): the exceptions of the constructor and of
\* Storage::create, or the array; an allocation may fail
ArrayCreate(shape, dtype, order) ==
    IF shape = <<>> THEN {Thrown("invalid_argument")}
    ELSE LET t == TotalElements(shape, 1, 1)
             element_size == scalarTypeSize(dtype)
             size_bytes == calculate_aligned_size(t.total, element_size,
                                                  DEFAULT_ALIGNMENT)
         IN  IF t.status # "OK" THEN {Thrown(t.status)}
             ELSE IF size_bytes = 0 THEN {Thrown("invalid_argument")}
             ELSE {Thrown("bad_alloc"),
                   [status |-> "OK", shape |-> shape,
                    strides |-> calculate_strides(shape, element_size, order),
                    itemsize |-> element_size, size_bytes |-> size_bytes]}

NoAccess == [status |-> "none", offset |-> 0]

\* the loop of calculate_offset from position i on
RECURSIVE OffsetLoop(_, _, _, _)
OffsetLoop(a, indices, i, offset) ==
    IF i > Len(indices) THEN [status |-> "OK", offset |-> offset]
    ELSE IF indices[i] >= a.shape[i]
         THEN [status |-> "out_of_range", offset |-> 0]
    ELSE OffsetLoop(a, indices, i + 1,
                    SizeWrap(offset + SizeWrap(indices[i] * a.strides[i])))

\* Array::calculate_offset, and the offset at<T>(...) dereferences
calculate_offset(a, indices) ==
    IF Len(indices) # Len(a.shape)
    THEN [status |-> "invalid_argument", offset |-> 0]
    ELSE OffsetLoop(a, indices, 1, 0)

ArrayIndices == SeqsUpTo(0 .. MaxArrayDim, MaxArrayRank)

InitArray ==
    /\ ar_array = NoArray
    /\ ar_call = [fn |-> "none", indices |-> <<>>]
    /\ ar_result = NoAccess

IdleAR == InitArray

\* xft::Array arr(shape, dtype, order)
ConstructArray ==
    /\ ar_array = NoArray
    /\ \E shape \in SeqsUpTo(0 .. MaxArrayDim, MaxArrayRank),
          dtype \in {"Float32", "Float64"}, order \in {"C", "F"} :
          ar_array' \in ArrayCreate(shape, dtype, order)
    /\ UNCHANGED <<ar_call, ar_result>>
    /\ UNCHANGED <<notUtil, dmVars, mkVars, alVars, rfVars>>

\* arr.calculate_offset(indices)
CallCalculateOffset ==
    /\ ar_array.status = "OK"
    /\ ar_call.fn = "none"
    /\ \E indices \in ArrayIndices :
          /\ ar_call' = [fn |-> "calculate_offset", indices |-> indices]
          /\ ar_result' = calculate_offset(ar_array, indices)
    /\ UNCHANGED ar_array
    /\ UNCHANGED <<notUtil, dmVars, mkVars, alVars, rfVars>>

\* arr.at<T>(indices...), T the array's dtype: the element at data() + offset
CallAt ==
    /\ ar_array.status = "OK"
    /\ ar_call.fn = "none"
    /\ \E indices \in ArrayIndices :
          /\ ar_call' = [fn |-> "at", indices |-> indices]
          /\ ar_result' = calculate_offset(ar_array, indices)
    /\ UNCHANGED ar_array
    /\ UNCHANGED <<notUtil, dmVars, mkVars, alVars, rfVars>>

NextArray == ConstructArray \/ CallCalculateOffset \/ CallAt

(***************************************************************************)
(* ReferenceCounted and RCReference on one thread (ref_count.h)            *)
(*                                                                         *)
(* An object is "unborn" until MakeRef allocates it, then "live", and      *)
(* "destroyed" once Destroy() has deleted it.  A pointer is an object or   *)
(* Null.  Using ref_count_ of a destroyed object is undefined; it is       *)
(* recorded in heap.uaf and nothing is run after it.                       *)
(***************************************************************************)
Objects == 1 .. MaxObjects

Refs == 1 .. MaxRefs

notRC == <<notUtil, dmVars, mkVars, alVars, arVars, rtVars>>

notRT == <<notUtil, dmVars, mkVars, alVars, arVars, rcVars>>

\* ReferenceCounted::AddRef(): ref_count_.fetch_add(1)
AddRef(heap, p) ==
    IF heap.state[p] # "live"
    THEN [heap EXCEPT !.uaf = TRUE]
    ELSE [heap EXCEPT !.ref_count[p] = @ + 1]

\* SubClass::Destroy(): delete this
Destroy(heap, p) ==
    [heap EXCEPT !.state[p] = "destroyed", !.destroys[p] = @ + 1]

\* ReferenceCounted::DropRef(): the object is destroyed if ref_count_ is 1,
\* or else if fetch_sub(1) returns 1
DropRef(heap, p) ==
    IF heap.state[p] # "live"
    THEN [heap EXCEPT !.uaf = TRUE]
    ELSE IF heap.ref_count[p] = 1
    THEN Destroy(heap, p)
    ELSE LET old == heap.ref_count[p]
             after == [heap EXCEPT !.ref_count[p] = old - 1]
         IN  IF old = 1 THEN Destroy(after, p) ELSE after

\* the first half of RCReference::reset(pointer): the old pointer_ is dropped
ResetDrop(heap, pointer_) ==
    IF pointer_ # Null THEN DropRef(heap, pointer_) ELSE heap

InitRCReference ==
    /\ rc_heap = [ref_count |-> [o \in Objects |-> 0],
                  state |-> [o \in Objects |-> "unborn"],
                  destroys |-> [o \in Objects |-> 0],
                  uaf |-> FALSE]
    /\ rc_exists = [r \in Refs |-> FALSE]
    /\ rc_pointer = [r \in Refs |-> Null]
    /\ rc_raw = [o \in Objects |-> 0]
    /\ rc_last = "none"

IdleRC == InitRCReference

\* RCReference<T> r: the default constructor
DefaultConstruct(r) ==
    /\ ~rc_heap.uaf
    /\ ~rc_exists[r]
    /\ rc_exists' = [rc_exists EXCEPT ![r] = TRUE]
    /\ rc_pointer' = [rc_pointer EXCEPT ![r] = Null]
    /\ rc_last' = "RCReference()"
    /\ UNCHANGED <<rc_heap, rc_raw>>
    /\ UNCHANGED notRC

\* auto r = MakeRef<T>(): new T with ref_count_ 1, wrapped by TakeRef
MakeRef(r) ==
    /\ ~rc_heap.uaf
    /\ ~rc_exists[r]
    /\ \E o \in Objects :
          /\ rc_heap.state[o] = "unborn"
          /\ \A q \in Objects : q < o => rc_heap.state[q] # "unborn"
          /\ rc_heap' = [rc_heap EXCEPT !.state[o] = "live",
                                        !.ref_count[o] = 1]
          /\ rc_pointer' = [rc_pointer EXCEPT ![r] = o]
    /\ rc_exists' = [rc_exists EXCEPT ![r] = TRUE]
    /\ rc_last' = "MakeRef"
    /\ UNCHANGED rc_raw
    /\ UNCHANGED notRC

\* auto r = FormRef(q.get()): the raw pointer of a reference that exists
FormRef(r, q) ==
    /\ ~rc_heap.uaf
    /\ ~rc_exists[r]
    /\ rc_exists[q]
    /\ rc_pointer[q] # Null
    /\ rc_pointer' = [rc_pointer EXCEPT ![r] = rc_pointer[q]]
    /\ rc_heap' = AddRef(rc_heap, rc_pointer[q])
    /\ rc_exists' = [rc_exists EXCEPT ![r] = TRUE]
    /\ rc_last' = "FormRef"
    /\ UNCHANGED rc_raw
    /\ UNCHANGED notRC

\* auto r = TakeRef(raw): raw is a +1 reference that release() handed out
TakeRef(r, o) ==
    /\ ~rc_heap.uaf
    /\ ~rc_exists[r]
    /\ rc_raw[o] > 0
    /\ rc_raw' = [rc_raw EXCEPT ![o] = @ - 1]
    /\ rc_pointer' = [rc_pointer EXCEPT ![r] = o]
    /\ rc_exists' = [rc_exists EXCEPT ![r] = TRUE]
    /\ rc_last' = "TakeRef"
    /\ UNCHANGED rc_heap
    /\ UNCHANGED notRC

\* RCReference r(other): the copy constructor
CopyConstruct(r, other) ==
    /\ ~rc_heap.uaf
    /\ ~rc_exists[r]
    /\ rc_exists[other]
    /\ rc_pointer' = [rc_pointer EXCEPT ![r] = rc_pointer[other]]
    /\ rc_heap' = IF rc_pointer[other] # Null
                  THEN AddRef(rc_heap, rc_pointer[other])
                  ELSE rc_heap
    /\ rc_exists' = [rc_exists EXCEPT ![r] = TRUE]
    /\ rc_last' = "RCReference(const&)"
    /\ UNCHANGED rc_raw
    /\ UNCHANGED notRC

\* RCReference r(std::move(other)): the move constructor
MoveConstruct(r, other) ==
    /\ ~rc_heap.uaf
    /\ ~rc_exists[r]
    /\ rc_exists[other]
    /\ rc_pointer' = [rc_pointer EXCEPT ![r] = rc_pointer[other],
                                        ![other] = Null]
    /\ rc_exists' = [rc_exists EXCEPT ![r] = TRUE]
    /\ rc_last' = "RCReference(&&)"
    /\ UNCHANGED <<rc_heap, rc_raw>>
    /\ UNCHANGED notRC

\* r = other: reset(other.pointer_), then AddRef on the pointer_ stored;
\* r and other may be the same variable
CopyAssign(r, other) ==
    /\ ~rc_heap.uaf
    /\ rc_exists[r]
    /\ rc_exists[other]
    /\ LET pointer == rc_pointer[other]
           dropped == ResetDrop(rc_heap, rc_pointer[r])
       IN  /\ rc_pointer' = [rc_pointer EXCEPT ![r] = pointer]
           /\ rc_heap' = IF pointer # Null /\ ~dropped.uaf
                         THEN AddRef(dropped, pointer)
                         ELSE dropped
    /\ rc_last' = IF r = other THEN "self =(const&)" ELSE "=(const&)"
    /\ UNCHANGED <<rc_exists, rc_raw>>
    /\ UNCHANGED notRC

\* r = std::move(other): reset(other.pointer_), then other.pointer_ = nullptr;
\* r and other may be the same variable
MoveAssign(r, other) ==
    /\ ~rc_heap.uaf
    /\ rc_exists[r]
    /\ rc_exists[other]
    /\ rc_heap' = ResetDrop(rc_heap, rc_pointer[r])
    /\ rc_pointer' = [[rc_pointer EXCEPT ![r] = rc_pointer[other]]
                         EXCEPT ![other] = Null]
    /\ rc_last' = IF r = other THEN "self =(&&)" ELSE "=(&&)"
    /\ UNCHANGED <<rc_exists, rc_raw>>
    /\ UNCHANGED notRC

\* r.reset(): the old reference is dropped, pointer_ becomes nullptr
Reset(r) ==
    /\ ~rc_heap.uaf
    /\ rc_exists[r]
    /\ rc_heap' = ResetDrop(rc_heap, rc_pointer[r])
    /\ rc_pointer' = [rc_pointer EXCEPT ![r] = Null]
    /\ rc_last' = "reset()"
    /\ UNCHANGED <<rc_exists, rc_raw>>
    /\ UNCHANGED notRC

\* r.reset(raw): raw is a +1 reference that release() handed out
ResetTo(r, o) ==
    /\ ~rc_heap.uaf
    /\ rc_exists[r]
    /\ rc_raw[o] > 0
    /\ rc_heap' = ResetDrop(rc_heap, rc_pointer[r])
    /\ rc_pointer' = [rc_pointer EXCEPT ![r] = o]
    /\ rc_raw' = [rc_raw EXCEPT ![o] = @ - 1]
    /\ rc_last' = "reset(raw)"
    /\ UNCHANGED rc_exists
    /\ UNCHANGED notRC

\* r.release(): the caller now owns the reference r held
Release(r) ==
    /\ ~rc_heap.uaf
    /\ rc_exists[r]
    /\ rc_pointer[r] # Null
    /\ rc_raw[rc_pointer[r]] < MaxRaw
    /\ rc_raw' = [rc_raw EXCEPT ![rc_pointer[r]] = @ + 1]
    /\ rc_pointer' = [rc_pointer EXCEPT ![r] = Null]
    /\ rc_last' = "release()"
    /\ UNCHANGED <<rc_heap, rc_exists>>
    /\ UNCHANGED notRC

\* raw->DropRef() on a reference that release() handed out
DropRaw(o) ==
    /\ ~rc_heap.uaf
    /\ rc_raw[o] > 0
    /\ rc_raw' = [rc_raw EXCEPT ![o] = @ - 1]
    /\ rc_heap' = DropRef(rc_heap, o)
    /\ rc_last' = "DropRef()"
    /\ UNCHANGED <<rc_exists, rc_pointer>>
    /\ UNCHANGED notRC

\* ~RCReference(): r goes out of scope
Destruct(r) ==
    /\ ~rc_heap.uaf
    /\ rc_exists[r]
    /\ rc_heap' = ResetDrop(rc_heap, rc_pointer[r])
    /\ rc_pointer' = [rc_pointer EXCEPT ![r] = Null]
    /\ rc_exists' = [rc_exists EXCEPT ![r] = FALSE]
    /\ rc_last' = "~RCReference()"
    /\ UNCHANGED rc_raw
    /\ UNCHANGED notRC

NextRCReference ==
    \/ \E r \in Refs : DefaultConstruct(r)
    \/ \E r \in Refs : MakeRef(r)
    \/ \E r, q \in Refs : FormRef(r, q)
    \/ \E r \in Refs, o \in Objects : TakeRef(r, o)
    \/ \E r, other \in Refs : CopyConstruct(r, other)
    \/ \E r, other \in Refs : MoveConstruct(r, other)
    \/ \E r, other \in Refs : CopyAssign(r, other)
    \/ \E r, other \in Refs : MoveAssign(r, other)
    \/ \E r \in Refs : Reset(r)
    \/ \E r \in Refs, o \in Objects : ResetTo(r, o)
    \/ \E r \in Refs : Release(r)
    \/ \E o \in Objects : DropRaw(o)
    \/ \E r \in Refs : Destruct(r)

(***************************************************************************)
(* One ReferenceCounted object shared by threads (ref_count.h)             *)
(*                                                                         *)
(* Every thread owns references of its own and copies (AddRef) and drops   *)
(* (DropRef) only those.  AddRef is one atomic fetch_add; DropRef is an    *)
(* atomic load, then an atomic fetch_sub, then Destroy(), and the threads  *)
(* interleave between these.                                               *)
(***************************************************************************)
RECURSIVE SumHeld(_, _)
SumHeld(held, threads) ==
    IF threads = {}
    THEN 0
    ELSE LET t == CHOOSE u \in threads : TRUE
         IN  held[t] + SumHeld(held, threads \ {t})

\* Mutant: the value fetch_sub returns is taken for the new count.
FetchSubWasLast_NewValue(old) == old = 0

\* DropRef: ref_count_.fetch_sub(1) == 1
FetchSubWasLast(old) == old = 1

InitRefCountRace(threads) ==
    /\ rt_held \in [threads -> 1 .. MaxHeld]
    /\ rt_ref_count = SumHeld(rt_held, threads)
    /\ rt_destroyed = 0
    /\ rt_pc = [t \in threads |-> "idle"]
    /\ rt_uaf = FALSE

IdleRT ==
    /\ rt_held = <<>>
    /\ rt_ref_count = 0
    /\ rt_destroyed = 0
    /\ rt_pc = <<>>
    /\ rt_uaf = FALSE

\* a thread copies a reference it owns: AddRef()
T_AddRef(t) ==
    /\ rt_pc[t] = "idle"
    /\ rt_held[t] >= 1
    /\ rt_held[t] < MaxHeld
    /\ IF rt_destroyed > 0
       THEN rt_uaf' = TRUE /\ UNCHANGED <<rt_ref_count, rt_held>>
       ELSE /\ rt_ref_count' = rt_ref_count + 1
            /\ rt_held' = [rt_held EXCEPT ![t] = @ + 1]
            /\ UNCHANGED rt_uaf
    /\ UNCHANGED <<rt_destroyed, rt_pc>>
    /\ UNCHANGED notRT

\* a thread drops a reference it owns: DropRef() is entered
T_DropRef(t) ==
    /\ rt_pc[t] = "idle"
    /\ rt_held[t] >= 1
    /\ rt_pc' = [rt_pc EXCEPT ![t] = "load"]
    /\ UNCHANGED <<rt_ref_count, rt_destroyed, rt_held, rt_uaf>>
    /\ UNCHANGED notRT

\* DropRef: ref_count_.load(acquire) == 1; the reference is given up here if
\* the load says it is the last
T_Load(t) ==
    /\ rt_pc[t] = "load"
    /\ IF rt_destroyed > 0
       THEN /\ rt_uaf' = TRUE
            /\ rt_pc' = [rt_pc EXCEPT ![t] = "idle"]
            /\ UNCHANGED rt_held
       ELSE IF rt_ref_count = 1
       THEN /\ rt_pc' = [rt_pc EXCEPT ![t] = "Destroy"]
            /\ rt_held' = [rt_held EXCEPT ![t] = @ - 1]
            /\ UNCHANGED rt_uaf
       ELSE /\ rt_pc' = [rt_pc EXCEPT ![t] = "fetch_sub"]
            /\ UNCHANGED <<rt_held, rt_uaf>>
    /\ UNCHANGED <<rt_ref_count, rt_destroyed>>
    /\ UNCHANGED notRT

\* DropRef: ref_count_.fetch_sub(1, acq_rel) == 1
T_FetchSub(t) ==
    /\ rt_pc[t] = "fetch_sub"
    /\ IF rt_destroyed > 0
       THEN /\ rt_uaf' = TRUE
            /\ rt_pc' = [rt_pc EXCEPT ![t] = "idle"]
            /\ UNCHANGED <<rt_ref_count, rt_held>>
       ELSE /\ rt_ref_count' = rt_ref_count - 1
            /\ rt_held' = [rt_held EXCEPT ![t] = @ - 1]
            /\ rt_pc' = [rt_pc EXCEPT ![t] =
                            IF FetchSubWasLast(rt_ref_count)
                            THEN "Destroy"
                            ELSE "idle"]
            /\ UNCHANGED rt_uaf
    /\ UNCHANGED rt_destroyed
    /\ UNCHANGED notRT

\* DropRef: static_cast<SubClass*>(this)->Destroy()
T_Destroy(t) ==
    /\ rt_pc[t] = "Destroy"
    /\ rt_destroyed' = rt_destroyed + 1
    /\ rt_pc' = [rt_pc EXCEPT ![t] = "idle"]
    /\ UNCHANGED <<rt_ref_count, rt_held, rt_uaf>>
    /\ UNCHANGED notRT

NextRefCountRace ==
    \/ \E t \in DOMAIN rt_pc : T_AddRef(t)
    \/ \E t \in DOMAIN rt_pc : T_DropRef(t)
    \/ \E t \in DOMAIN rt_pc : T_Load(t)
    \/ \E t \in DOMAIN rt_pc : T_FetchSub(t)
    \/ \E t \in DOMAIN rt_pc : T_Destroy(t)

(***************************************************************************)
(* The idle state of the classes above                                     *)
(***************************************************************************)
IdleUtil == IdleDM /\ IdleMK /\ IdleAL /\ IdleAR /\ IdleRC /\ IdleRT

IdleCore ==
    /\ IdleSP /\ IdleDL /\ IdleFP /\ IdleHash /\ IdleShape /\ IdleID
    /\ IdleSD /\ IdleWD /\ IdleDS /\ IdleIX

(***************************************************************************)
(* Specifications                                                          *)
(***************************************************************************)
\* ShardingParam::verify over every constructible parameter.
Init ==
    /\ InitSP /\ IdleDL /\ IdleFP /\ IdleHash /\ IdleShape /\ IdleID
    /\ IdleSD /\ IdleWD /\ IdleDS /\ IdleIX /\ IdleUtil

Next == Verify

Spec == Init /\ [][Next]_vars

\* verify() and ToDeviceList over every constructible mesh.
InitOfMesh ==
    /\ InitMesh /\ IdleDL /\ IdleFP /\ IdleHash /\ IdleShape /\ IdleID
    /\ IdleSD /\ IdleWD /\ IdleDS /\ IdleIX /\ IdleUtil

SpecMesh == InitOfMesh /\ [][NextMesh]_vars

\* One thread calling AddressableDeviceList on one DeviceList.
InitOfDeviceList ==
    /\ InitDeviceList({1}) /\ IdleSP /\ IdleFP /\ IdleHash /\ IdleShape
    /\ IdleID /\ IdleSD /\ IdleWD /\ IdleDS /\ IdleIX /\ IdleUtil

SpecDeviceList == InitOfDeviceList /\ [][NextDL]_vars

\* Several threads calling AddressableDeviceList on one DeviceList.
InitOfDeviceListRace ==
    /\ InitDeviceList(1 .. MaxThreads) /\ IdleSP /\ IdleFP /\ IdleHash
    /\ IdleShape /\ IdleID /\ IdleSD /\ IdleWD /\ IdleDS /\ IdleIX /\ IdleUtil

SpecDeviceListRace == InitOfDeviceListRace /\ [][NextDL]_vars

\* fingerprint() of two DeviceLists.
InitOfFingerprint ==
    /\ InitFP /\ IdleSP /\ IdleDL /\ IdleHash /\ IdleShape /\ IdleID
    /\ IdleSD /\ IdleWD /\ IdleDS /\ IdleIX /\ IdleUtil

SpecFingerprint == InitOfFingerprint /\ [][NextFP]_vars

\* Several threads hashing one HloSharding.
InitOfHash ==
    /\ InitHash(1 .. MaxThreads, 1, 1) /\ IdleSP /\ IdleDL /\ IdleFP
    /\ IdleShape /\ IdleID /\ IdleSD /\ IdleWD /\ IdleDS /\ IdleIX /\ IdleUtil

SpecHash == InitOfHash /\ [][NextHash]_vars

\* One thread hashing two HloShardings built over two DeviceList objects.
InitOfHashPair ==
    /\ InitHash({1}, 2, 2) /\ IdleSP /\ IdleDL /\ IdleFP /\ IdleShape
    /\ IdleID /\ IdleSD /\ IdleWD /\ IdleDS /\ IdleIX /\ IdleUtil

SpecHashPair == InitOfHashPair /\ [][NextHash]_vars

\* The shape conversions of one ShardingParam.
InitOfShape ==
    /\ InitShape /\ IdleDL /\ IdleFP /\ IdleHash /\ IdleID /\ IdleSD
    /\ IdleWD /\ IdleDS /\ IdleIX /\ IdleUtil

SpecShape == InitOfShape /\ [][NextShape]_vars

\* IndexDomains and its slow path on the same inputs.
InitOfIndexDomains ==
    /\ InitIndexDomains /\ IdleSP /\ IdleDL /\ IdleFP /\ IdleHash
    /\ IdleShape /\ IdleSD /\ IdleWD /\ IdleDS /\ IdleIX /\ IdleUtil

SpecIndexDomains == InitOfIndexDomains /\ [][NextIndexDomains]_vars

\* IndexDomains and Disassemble called with and without a semantics argument.
SpecSemantics == InitOfIndexDomains /\ [][NextSemantics]_vars

InitOfDisassemble ==
    /\ InitDisassemble /\ IdleSP /\ IdleDL /\ IdleFP /\ IdleHash
    /\ IdleShape /\ IdleSD /\ IdleWD /\ IdleDS /\ IdleIX /\ IdleUtil

SpecDisassemble == InitOfDisassemble /\ [][NextDisassemble]_vars

\* GetShardShape of an HloSharding.
InitOfShardShape ==
    /\ InitShardShape /\ IdleSP /\ IdleDL /\ IdleFP /\ IdleHash /\ IdleShape
    /\ IdleSD /\ IdleWD /\ IdleDS /\ IdleIX /\ IdleUtil

SpecShardShape == InitOfShardShape /\ [][NextShardShape]_vars

\* WithDeviceAssignment on one HloSharding.
InitOfWithDeviceAssignment ==
    /\ InitWD /\ IdleSP /\ IdleDL /\ IdleFP /\ IdleHash /\ IdleShape
    /\ IdleID /\ IdleSD /\ IdleDS /\ IdleIX /\ IdleUtil

SpecWithDeviceAssignment == InitOfWithDeviceAssignment /\ [][NextWD]_vars

\* Constructing a tag, then a DynamicShape from it.
InitOfDynamicShape ==
    /\ InitDynamicShape /\ IdleSP /\ IdleDL /\ IdleFP /\ IdleHash /\ IdleShape
    /\ IdleID /\ IdleSD /\ IdleWD /\ IdleIX /\ IdleUtil

SpecDynamicShape == InitOfDynamicShape /\ [][NextDynamicShape]_vars

\* Index arithmetic on two operands, for both Index types.
InitOfIndex ==
    /\ InitIndex /\ IdleSP /\ IdleDL /\ IdleFP /\ IdleHash /\ IdleShape
    /\ IdleID /\ IdleSD /\ IdleWD /\ IdleDS /\ IdleUtil

SpecIndex == InitOfIndex /\ [][NextIndex]_vars

\* Shifting one IndexDomain by one offset, once or twice.
InitOfDomain ==
    InitDomain /\ IdleCore /\ IdleMK /\ IdleAL /\ IdleAR /\ IdleRC /\ IdleRT

SpecDomain == InitOfDomain /\ [][NextDomain]_vars

\* Several threads constructing MemoryKind values.
InitOfMemoryKind ==
    /\ InitMemoryKind(1 .. MaxThreads)
    /\ IdleCore /\ IdleDM /\ IdleAL /\ IdleAR /\ IdleRC /\ IdleRT

SpecMemoryKind == InitOfMemoryKind /\ [][NextMemoryKind]_vars

\* One call of align_size or calculate_aligned_size.
InitOfAlign ==
    InitAlign /\ IdleCore /\ IdleDM /\ IdleMK /\ IdleAR /\ IdleRC /\ IdleRT

SpecAlign == InitOfAlign /\ [][NextAlign]_vars

\* One Array created by allocation and one element access.
InitOfArray ==
    InitArray /\ IdleCore /\ IdleDM /\ IdleMK /\ IdleAL /\ IdleRC /\ IdleRT

SpecArray == InitOfArray /\ [][NextArray]_vars

\* The RCReference operations of one thread.
InitOfRCReference ==
    /\ InitRCReference
    /\ IdleCore /\ IdleDM /\ IdleMK /\ IdleAL /\ IdleAR /\ IdleRT

SpecRCReference == InitOfRCReference /\ [][NextRCReference]_vars

\* Threads that copy and drop their references to one object.
InitOfRefCountRace ==
    /\ InitRefCountRace(1 .. MaxThreads)
    /\ IdleCore /\ IdleDM /\ IdleMK /\ IdleAL /\ IdleAR /\ IdleRC

SpecRefCountRace == InitOfRefCountRace /\ [][NextRefCountRace]_vars

(***************************************************************************)
(* Claims about ShardingParam                                              *)
(***************************************************************************)
PairwiseDistinct(s) == \A i, j \in DOMAIN s : i # j => s[i] # s[j]

\* C1: after verify() succeeded on a ShardingParam whose mesh axis sizes
\* are all >= 1, one ToDeviceList call on an empty vector leaves exactly
\* NumDevices() ids, pairwise distinct, forming the set 0 .. NumDevices()-1.
C1_ToDeviceListCoversMesh ==
    (/\ verify_status = "OK"
     /\ \A i \in DOMAIN axis_sizes : axis_sizes[i] >= 1
     /\ tdl_calls = 1)
    => /\ ~tdl_ub
       /\ Len(out_devices) = NumDevices(axis_sizes)
       /\ PairwiseDistinct(out_devices)
       /\ Range(out_devices) = 0 .. (NumDevices(axis_sizes) - 1)

\* C1 witness: the scenario dim_shards=[2,1,3], permutation=[1,0],
\* axis_sizes=[3,2] verified and linearized into the six ids 0..5.
C1_Witness ==
    /\ dim_shards = <<2, 1, 3>>
    /\ permutation = <<1, 0>>
    /\ axis_sizes = <<3, 2>>
    /\ verify_status = "OK"
    /\ tdl_calls = 1
    /\ Len(out_devices) = 6
    /\ Range(out_devices) = 0 .. 5

\* The condition C2 states, written from the claim: the structure.
C2_StructurallyValid(perm, axis) ==
    /\ Len(perm) = Len(axis)
    /\ Len(axis) # 0
    /\ Range(perm) = 0 .. (Len(axis) - 1)

\* "skip dim_shards entries equal to 1": the first index from di on that is
\* past the end or holds an entry other than 1.
C2_SkipOnes(ds, di) ==
    CHOOSE j \in di .. Len(ds) :
        /\ j = Len(ds) \/ ds[j + 1] # 1
        /\ \A i \in di .. (j - 1) : ds[i + 1] = 1

\* "while cum_size is divisible by dim_shards[dim_index], divide and advance"
RECURSIVE C2_DivideAndAdvance(_, _, _)
C2_DivideAndAdvance(ds, di, cum) ==
    IF di < Len(ds) /\ ds[di + 1] # 0 /\ cum % ds[di + 1] = 0
    THEN C2_DivideAndAdvance(ds, di + 1, cum \div ds[di + 1])
    ELSE <<di, cum>>

RECURSIVE C2_Walk(_, _, _, _, _, _)
C2_Walk(ds, perm, axis, k, di, cum) ==
    IF k > Len(perm)
    THEN di
    ELSE LET a == C2_DivideAndAdvance(ds, C2_SkipOnes(ds, di),
                                      cum * axis[perm[k] + 1])
         IN  C2_Walk(ds, perm, axis, k + 1, a[1], a[2])

C2_Feasible(ds, perm, axis) ==
    /\ C2_StructurallyValid(perm, axis)
    /\ C2_SkipOnes(ds, C2_Walk(ds, perm, axis, 1, 0, 1)) = Len(ds)

\* C2: verify() returns OK exactly when minor_to_major is structurally
\* valid and the greedy walk ends past every entry of dim_shards, and an
\* invalid-argument error in every other case.
C2_VerifyIffGreedyWalk ==
    verify_status # "none"
    => /\ verify_status \in {"OK", "INVALID_ARGUMENT"}
       /\ verify_status = "OK"
          <=> C2_Feasible(dim_shards, permutation, axis_sizes)

\* C2, restricted to parameters whose dim_shards are all >= 1: the part of
\* the claim the code does satisfy.
C2_VerifyIffGreedyWalkPositive ==
    (verify_status # "none" /\ \A i \in DOMAIN dim_shards : dim_shards[i] >= 1)
    => /\ verify_status \in {"OK", "INVALID_ARGUMENT"}
       /\ verify_status = "OK"
          <=> C2_Feasible(dim_shards, permutation, axis_sizes)

\* The position-th id (1-based) of the minor-to-major enumeration, from
\* the claim: mesh coordinate of axis perm[k] is digit k of position - 1 in
\* the mixed radix whose digit sizes are the axis sizes in permutation order.
RECURSIVE C3_IdAt(_, _, _, _)
C3_IdAt(perm, axis, position, k) ==
    IF k > Len(perm)
    THEN 0
    ELSE LET stride == Product([m \in 1 .. (k - 1) |-> axis[perm[m] + 1]])
             coord == ((position - 1) \div stride) % axis[perm[k] + 1]
         IN  coord * Product(SubSeq(axis, 1, perm[k]))
             + C3_IdAt(perm, axis, position, k + 1)

C13_NonPositiveEntry ==
    \/ \E i \in DOMAIN dim_shards : dim_shards[i] < 1
    \/ \E i \in DOMAIN axis_sizes : axis_sizes[i] < 1

\* C13: verify() returns an error for every ShardingParam with a dim_shards
\* entry < 1 or a mesh axis size < 1; it neither accepts such a parameter
\* nor divides by zero on it.
C13_VerifyRejectsNonPositive ==
    (verify_status # "none" /\ C13_NonPositiveEntry) =>
        verify_status = "INVALID_ARGUMENT"

\* C13 for the structurally invalid parameters only: an axis size < 1 next
\* to a permutation that is no bijection is rejected.
C13_VerifyRejectsInvalidMinorToMajor ==
    (/\ verify_status # "none"
     /\ MinorToMajor_verify(permutation, axis_sizes) # "OK") =>
        verify_status = "INVALID_ARGUMENT"

C14_Positive ==
    /\ \A i \in DOMAIN dim_shards : dim_shards[i] >= 1
    /\ \A i \in DOMAIN axis_sizes : axis_sizes[i] >= 1

\* C14: whenever verify() succeeds on a ShardingParam with positive entries,
\* the product of dim_shards divides NumDevices() exactly: the replication
\* factor NumDevices() / product(dim_shards) is a positive integer.
C14_ShardsDivideNumDevices ==
    (verify_status = "OK" /\ C14_Positive) =>
        /\ NumDevices(axis_sizes) % Product(dim_shards) = 0
        /\ NumDevices(axis_sizes) \div Product(dim_shards) >= 1

\* C14 witness: dim_shards=[2] verified on the 2x3 mesh, replication factor 3.
C14_Witness ==
    /\ verify_status = "OK"
    /\ dim_shards = <<2>>
    /\ permutation = <<0, 1>>
    /\ axis_sizes = <<2, 3>>
    /\ NumDevices(axis_sizes) \div Product(dim_shards) = 3

\* verify() was called on the class comment's "Invalid 3" example
C23_UnevenExampleVerified ==
    /\ dim_shards = <<1, 2>>
    /\ permutation = <<0, 1>>
    /\ axis_sizes = <<3, 2>>
    /\ verify_status # "none"

\* C23: verify() rejects the documented "uneven distribution" example
\* dim_shards=[1,2], permutation=[0,1], axis_sizes=[3,2].
C23_VerifyRejectsUnevenExample ==
    C23_UnevenExampleVerified => verify_status = "INVALID_ARGUMENT"

\* the program: verify() accepts that example
C23_VerifyAcceptsUnevenExample ==
    C23_UnevenExampleVerified => verify_status = "OK"

\* ToDeviceList was called once, on an empty vector, for the documented
\* row-major example axis_sizes=[2,3], permutation=[1,0]
C24_RowMajorExampleCalled ==
    /\ permutation = <<1, 0>>
    /\ axis_sizes = <<2, 3>>
    /\ tdl_calls = 1

\* C24: for axis_sizes=[2,3] and permutation=[1,0], ToDeviceList produces
\* the device list [0, 1, 2, 3, 4, 5].
C24_RowMajorExample ==
    C24_RowMajorExampleCalled => out_devices = <<0, 1, 2, 3, 4, 5>>

\* the program: the list it produces for that example
C24_RowMajorExampleOfCode ==
    C24_RowMajorExampleCalled => out_devices = <<0, 2, 4, 1, 3, 5>>

\* ToDeviceList was called on a mesh that MinorToMajor::verify accepts
C25_Called ==
    /\ tdl_calls >= 1
    /\ ~tdl_ub
    /\ MinorToMajor_verify(permutation, axis_sizes) = "OK"

\* C25: ToDeviceList clears the vector before populating it: after the call
\* out_devices.size() is the product of all axis_sizes whatever the vector
\* held before, and a second call leaves what the first one left.
C25_ToDeviceListClears ==
    C25_Called =>
        /\ Len(out_devices) = NumDevices(axis_sizes)
        /\ out_devices = ToDeviceList(permutation, axis_sizes, <<>>)

\* the program: every call appends the product of all axis_sizes ids
C25_ToDeviceListAppends ==
    C25_Called =>
        Len(out_devices) = tdl_calls * NumDevices(axis_sizes)

(***************************************************************************)
(* Claims about DeviceList                                                 *)
(***************************************************************************)
\* C5: AddressableDeviceList() returns the list itself when every device of
\* the list is addressable; otherwise it returns a list whose devices are
\* exactly the addressable devices of the original, in their original
\* order, duplicates preserved.
C5_AddressableSublist ==
    \A p \in dl_returned :
        IF \A i \in DOMAIN Parent.devices : dev_addressable[Parent.devices[i]]
        THEN p = ParentList
        ELSE dl_heap[p].devices =
                 SelectSeq(Parent.devices, LAMBDA d : dev_addressable[d])

\* C5 witness: the list [1, 2, 1] with device 2 not addressable was asked
\* twice and returned a sublist [1, 1].
C5_Witness ==
    /\ dl_threads = {1}
    /\ t_calls[1] = 2
    /\ Parent.devices = <<1, 2, 1>>
    /\ dev_addressable[1] /\ ~dev_addressable[2]
    /\ \E p \in dl_returned : p # ParentList /\ dl_heap[p].devices = <<1, 1>>

\* C6: for a DeviceList with a non-addressable device, all calls of
\* AddressableDeviceList(), racing first calls included, return one and the
\* same list, and every returned list is never freed while the parent lives.
C6_StableCachedIdentity ==
    (dl_threads # {} /\ ~AllAddressable(Parent.devices, dev_addressable)) =>
        /\ Cardinality(dl_returned) <= 1
        /\ \A p \in dl_returned : dl_heap[p].alive

\* C6 with one calling thread: sequential calls do return one live list.
C6_StableCachedIdentitySequential ==
    Cardinality(dl_threads) = 1 => C6_StableCachedIdentity

C9_Called ==
    /\ fp_ids # <<>>
    /\ \A l \in FpLists : fp_fingerprint[l].status = "done"

\* the two id sequences differ in exactly one id
C9_DifferInSingleId(a, b) ==
    /\ Len(a) = Len(b)
    /\ Cardinality({i \in DOMAIN a : a[i] # b[i]}) = 1

\* the two id sequences hold the same ids in a different order
C9_DifferInOrder(a, b) ==
    /\ a # b
    /\ Len(a) = Len(b)
    /\ \A x \in Range(a) \cup Range(b) :
          Cardinality({i \in DOMAIN a : a[i] = x})
              = Cardinality({i \in DOMAIN b : b[i] = x})

\* C9: fingerprint() is equal for two lists with identical id sequences and
\* differs (the bytes fed to the hash differ) for two lists whose id
\* sequences differ in a single id or in order.
C9_FingerprintSeparates ==
    C9_Called =>
        /\ fp_ids[1] = fp_ids[2] =>
              fp_fingerprint[1].value = fp_fingerprint[2].value
        /\ (C9_DifferInSingleId(fp_ids[1], fp_ids[2])
            \/ C9_DifferInOrder(fp_ids[1], fp_ids[2])) =>
              fp_fingerprint[1].value # fp_fingerprint[2].value

\* C9 without the order case: identical sequences agree, and a change of one
\* id changes the bytes.
C9_FingerprintSeparatesSingleId ==
    C9_Called =>
        /\ fp_ids[1] = fp_ids[2] =>
              fp_fingerprint[1].value = fp_fingerprint[2].value
        /\ C9_DifferInSingleId(fp_ids[1], fp_ids[2]) =>
              fp_fingerprint[1].value # fp_fingerprint[2].value

(***************************************************************************)
(* Claims about HloSharding::Hash                                          *)
(***************************************************************************)
\* the values stored into hash_ of sharding s
C7_Stored(s) ==
    {hs_stored[i][2] : i \in {j \in DOMAIN hs_stored : hs_stored[j][1] = s}}

\* the values Hash calls on sharding s combined into their states
C7_Combined(s) == {c[2] : c \in {d \in hs_combined : d[1] = s}}

\* C7: under every interleaving of Hash calls on one sharding all calls
\* combine the same value, hash_ only changes from 0 to that value, every
\* store writes that value, and the value stored is never 0.
C7_OneHashValue ==
    \A s \in DOMAIN hs_shardings :
        /\ Cardinality(C7_Stored(s) \cup C7_Combined(s)) <= 1
        /\ C7_Combined(s) \subseteq C7_Stored(s)
        /\ 0 \notin C7_Stored(s)
        /\ hs_shardings[s].hash_ = 0 <=> C7_Stored(s) = {}
        /\ hs_shardings[s].hash_ # 0 => hs_shardings[s].hash_ \in C7_Stored(s)

\* C7 witness: absl::HashOf gave 0, two threads raced through the first
\* call, both stored, and both finished their calls.
C7_Witness ==
    /\ hs_threads = 1 .. MaxThreads
    /\ Len(hs_stored) = 2
    /\ AbslHashOf(hs_seed, hs_shardings[1].devices,
                  hs_shardings[1].memory_kind,
                  hs_shardings[1].xla_hlo_sharding) = 0
    /\ hs_shardings[1].hash_ = 1
    /\ \A t \in hs_threads : h_calls[t] >= 1

C8_StructurallyEqual(a, b) ==
    /\ hs_lists[a.devices] = hs_lists[b.devices]
    /\ a.memory_kind = b.memory_kind
    /\ a.xla_hlo_sharding = b.xla_hlo_sharding

\* C8: two HloShardings with equal device lists, equal memory kinds and
\* equal tiling specifications hash to the same value, also when their
\* device lists are distinct DeviceList objects.
C8_HashIsStructural ==
    \A c, d \in hs_combined :
        C8_StructurallyEqual(hs_shardings[c[1]], hs_shardings[d[1]])
            => c[2] = d[2]

\* C8 for shardings that share one DeviceList object.
C8_HashIsStructuralSameObject ==
    \A c, d \in hs_combined :
        (/\ hs_shardings[c[1]].devices = hs_shardings[d[1]].devices
         /\ C8_StructurallyEqual(hs_shardings[c[1]], hs_shardings[d[1]]))
            => c[2] = d[2]

(***************************************************************************)
(* Claims about the shape conversions                                      *)
(***************************************************************************)
C10_Precondition ==
    /\ \A i \in DOMAIN dim_shards : dim_shards[i] >= 1
    /\ Len(sh_shape) = Len(dim_shards)
    /\ \A i \in DOMAIN dim_shards : sh_shape[i] % dim_shards[i] = 0

\* C10: with all dim_shards >= 1 and a global shape g of the same rank whose
\* dimensions are divisible by dim_shards, LocalShapeFromGlobalShape(g)
\* succeeds with l[i] = g[i] / dim_shards[i], and
\* GlobalShapeFromLocalShape(l) succeeds and returns g.
C10_ShapeRoundTrip ==
    C10_Precondition =>
        /\ sh_local # NoResult =>
              /\ sh_local.status = "OK"
              /\ sh_local.shape =
                     [i \in DOMAIN dim_shards |-> sh_shape[i] \div dim_shards[i]]
        /\ sh_global # NoResult =>
              /\ sh_global.status = "OK"
              /\ sh_global.shape = sh_shape

\* C10 witness: dim_shards=[2,3], g=[4,3]: l=[2,1] and back to [4,3].
C10_Witness ==
    /\ dim_shards = <<2, 3>>
    /\ sh_shape = <<4, 3>>
    /\ sh_local.status = "OK"
    /\ sh_local.shape = <<2, 1>>
    /\ sh_global.status = "OK"
    /\ sh_global.shape = <<4, 3>>

C11_Called == sh_local # NoResult

\* g is an exact multiple of d
C11_ExactMultiple(g, d) == \E k \in 0 .. MaxDim : g = k * d

\* the dimensions (from 0) whose global size is no exact multiple of the
\* number of shards
C11_Offending ==
    {i - 1 : i \in {j \in DOMAIN dim_shards \cap DOMAIN sh_shape :
                       ~C11_ExactMultiple(sh_shape[j], dim_shards[j])}}

\* C11: whenever some g[i] is not an exact multiple of dim_shards[i],
\* LocalShapeFromGlobalShape returns an invalid-argument error naming an
\* offending dimension; a shape it returns is never rounded or padded.
C11_NonDivisibleIsError ==
    C11_Called =>
        /\ C11_Offending # {} =>
              /\ sh_local.status = "INVALID_ARGUMENT"
              /\ sh_local.dim \in C11_Offending
        /\ sh_local.status = "OK" =>
              \A i \in DOMAIN dim_shards \cap DOMAIN sh_shape :
                  sh_local.shape[i] * dim_shards[i] = sh_shape[i]

\* C11 for parameters whose dim_shards are all >= 1.
C11_NonDivisibleIsErrorPositive ==
    (\A i \in DOMAIN dim_shards : dim_shards[i] >= 1)
        => C11_NonDivisibleIsError

C12_RankMismatch == Len(sh_shape) # Len(dim_shards)

\* C12: when the rank of the shape differs from the length of dim_shards,
\* GlobalShapeFromLocalShape and LocalShapeFromGlobalShape both return an
\* invalid-argument error (and so read no element out of range).
C12_RankMismatchIsError ==
    C12_RankMismatch =>
        /\ sh_local # NoResult => sh_local.status = "INVALID_ARGUMENT"
        /\ sh_global_direct # NoResult =>
              sh_global_direct.status = "INVALID_ARGUMENT"

\* C12 for GlobalShapeFromLocalShape alone.
C12_GlobalRankMismatchIsError ==
    (C12_RankMismatch /\ sh_global_direct # NoResult) =>
        sh_global_direct.status = "INVALID_ARGUMENT"

(***************************************************************************)
(* Claims about HloSharding::IndexDomains                                  *)
(***************************************************************************)
C4_FastPathSucceeded ==
    /\ id_fast.path = "fast"
    /\ id_fast.status = "OK"
    /\ id_slow # NoDomains

\* C4: whenever IndexDomains takes its fast path and succeeds, its result is
\* that of the slow path on the same inputs: as many domains, in the same
\* device order, with the same origin and the same shape for every device.
C4_FastPathEqualsSlowPath ==
    C4_FastPathSucceeded =>
        /\ id_slow.status = "OK"
        /\ id_slow.domains = id_fast.domains

\* C4 for tiled shardings: the EachTile fast path agrees with the slow path.
C4_TiledFastPathEqualsSlowPath ==
    (C4_FastPathSucceeded /\ IsTiled(id_sharding)) =>
        /\ id_slow.status = "OK"
        /\ id_slow.domains = id_fast.domains

\* C4 without the origins: the number, order and shapes of the domains agree
\* on every fast path.
C4_FastPathShapesEqualSlowPath ==
    C4_FastPathSucceeded =>
        /\ id_slow.status = "OK"
        /\ Len(id_slow.domains) = Len(id_fast.domains)
        /\ \A k \in DOMAIN id_fast.domains :
              id_slow.domains[k].shape = id_fast.domains[k].shape

(***************************************************************************)
(* Claims about the default shard semantics, GetShardShape and             *)
(* WithDeviceAssignment                                                    *)
(***************************************************************************)
\* the calls without a semantics argument agree with the calls that were
\* given the semantics sem
C15_DefaultBehavesLike(sem) ==
    /\ (/\ id_semantics = sem
        /\ id_fast # NoDomains
        /\ sd_default_domains # NoDomains) =>
          /\ sd_default_domains.status = id_fast.status
          /\ sd_default_domains.domains = id_fast.domains
    /\ (/\ id_semantics = sem
        /\ sd_shards # NoShards
        /\ sd_default_shards # NoShards) =>
          sd_default_shards = sd_shards

\* C15: Disassemble and IndexDomains called without a semantics argument
\* behave exactly as with kAddressableShards: shards of non-addressable
\* devices are excluded from the result.
C15_DefaultIsAddressableShards ==
    /\ C15_DefaultBehavesLike("kAddressableShards")
    /\ sd_default_shards.status = "OK" =>
          \A k \in DOMAIN sd_default_shards.shards :
              id_addressable[sd_default_shards.shards[k].device]

\* What the code does instead: the calls without a semantics argument behave
\* as with kAllShards.
C15_DefaultIsAllShards == C15_DefaultBehavesLike("kAllShards")

\* q is the ceiling of g / t
C16_IsCeiling(q, g, t) == q * t >= g /\ (q - 1) * t < g

C17_Called == wd_result # NoSharding

\* the device list and the memory kind the call names: the supplied one
\* where given, the original one where omitted
C17_Devices ==
    IF wd_args.devices.has_value
    THEN wd_args.devices.value
    ELSE wd_sharding.devices

C17_Kind ==
    IF wd_args.memory_kind.has_value
    THEN wd_args.memory_kind.value
    ELSE wd_sharding.memory_kind

C17_CountDiffers ==
    /\ wd_args.devices.has_value
    /\ Len(wd_args.devices.value) # Len(wd_sharding.devices)

\* the parts of C17 that do not concern the memory kind: the error on a
\* device-count change, the unchanged tiling specification, the devices, and
\* the original sharding still being what Create made
C17_Repinned ==
    /\ wd_sharding.devices = wd_created.devices
    /\ wd_sharding.xla_hlo_sharding = wd_created.xla_hlo_sharding
    /\ IF C17_CountDiffers
       THEN wd_result.status = "INVALID_ARGUMENT"
       ELSE /\ wd_result.status = "OK"
            /\ wd_result.sharding.xla_hlo_sharding
                   = wd_sharding.xla_hlo_sharding
            /\ HasSamePartitioning(wd_result.sharding, wd_sharding)
            /\ wd_result.sharding.devices = C17_Devices

\* C17 as stated: WithDeviceAssignment returns an invalid-argument error when
\* the supplied device list has another number of devices; otherwise a new
\* sharding with the unchanged tiling specification, the supplied devices
\* and memory kind where given and the original ones where omitted, and the
\* original is left unmodified.
C17_WithDeviceAssignmentAsSupplied ==
    C17_Called =>
        /\ C17_Repinned
        /\ wd_result.status = "OK" =>
              wd_result.sharding.memory_kind = C17_Kind

\* C17, amended: the memory kind of the new sharding is the supplied (else
\* the original) one canonicalized against the first device of the new
\* sharding: a memory kind that names no kind becomes the kind of that
\* device's default memory.
C17_WithDeviceAssignment ==
    C17_Called =>
        /\ C17_Repinned
        /\ wd_result.status = "OK" =>
              wd_result.sharding.memory_kind =
                  IF C17_Kind # UnspecifiedKind
                  THEN C17_Kind
                  ELSE wd_default_kind[Head(C17_Devices)]

\* C17 witness: a sharding over [1] of unspecified memory kind was re-pinned
\* to [2], whose default memory has kind 1, with no memory kind supplied.
C17_Witness ==
    /\ wd_sharding.devices = <<1>>
    /\ wd_sharding.memory_kind = UnspecifiedKind
    /\ wd_args.devices = Some(<<2>>)
    /\ wd_args.memory_kind = NoKind
    /\ wd_default_kind[2] = 1
    /\ wd_result.status = "OK"
    /\ wd_result.sharding.devices = <<2>>
    /\ wd_result.sharding.memory_kind = 1

\* C28: whenever Disassemble(shape, semantics) succeeds it returns one pair
\* per device of the sharding (kAllShards) or per addressable device
\* (kAddressableShards), in device-list order; the k-th pair's sharding is
\* pinned to the k-th included device with the parent's memory kind, and its
\* shard shape is the shape of that device's IndexDomain whenever
\* IndexDomains succeeds on the same inputs.
C28_Included ==
    IF id_semantics = "kAllShards"
    THEN id_devices
    ELSE AddressableDevices(id_devices, id_addressable)

C28_OnePairPerIncludedDevice ==
    sd_shards.status = "OK" =>
        /\ Len(sd_shards.shards) = Len(C28_Included)
        /\ \A k \in DOMAIN sd_shards.shards :
              /\ sd_shards.shards[k].sharding.devices = <<C28_Included[k]>>
              /\ sd_shards.shards[k].sharding.memory_kind = id_memory_kind

C28_ShapesOfIndexDomains ==
    (sd_shards.status = "OK" /\ id_fast.status = "OK") =>
        /\ Len(id_fast.domains) = Len(sd_shards.shards)
        /\ \A k \in DOMAIN sd_shards.shards :
              sd_shards.shards[k].shape = id_fast.domains[k].shape

C18_TagHasNoDynamicDim == ds_tag # NoTag /\ ~HasDynamicDim(ds_dims)

\* DynamicShape::Create was called with a tag whose length is not the rank
C18_RankMismatch ==
    ds_created # NoDynamicShape /\ Len(ds_tag.dynamic_dims) # Len(ds_shape)

\* every DynamicShape that exists has tag length == rank and a dynamic dim
C18_WellFormed ==
    ds_created.status = "OK" =>
        /\ Len(ds_created.tag) = Len(ds_created.shape)
        /\ HasDynamicDim(ds_created.tag)

\* C18 as stated: constructing a tag with no dynamic dimension and creating
\* a DynamicShape whose tag length differs from the rank both terminate the
\* program, and every DynamicShape that exists is well formed.
C18_MismatchIsFatal ==
    /\ C18_TagHasNoDynamicDim => ds_tag.status = "ABORT"
    /\ C18_RankMismatch => ds_created.status = "ABORT"
    /\ C18_WellFormed

\* C18: constructing a tag with no dynamic dimension terminates the program;
\* creating a DynamicShape whose tag length differs from the rank hands an
\* INVALID_ARGUMENT status back to the caller and no DynamicShape; every
\* DynamicShape that exists has tag length == rank and a dynamic dimension.
C18_MismatchIsInvalidArgument ==
    /\ C18_TagHasNoDynamicDim => ds_tag.status = "ABORT"
    /\ C18_RankMismatch => ds_created.status = "INVALID_ARGUMENT"
    /\ C18_WellFormed

C18_Witness == C18_RankMismatch /\ ds_created.status = "INVALID_ARGUMENT"

\* both operators of a round trip on index.h's Index returned
C19_RoundTrip(ops) == ~ix_local /\ ix_op = ops /\ ix_second.status = "OK"

\* C19: for Index values a and b of the same rank, (a + b) - b == a and
\* (a - b) + b == a.
C19_RoundTrips ==
    Len(ix_a) = Len(ix_b) =>
        /\ C19_RoundTrip(<<"+", "-">>) => ix_second.elements = ix_a
        /\ C19_RoundTrip(<<"-", "+">>) => ix_second.elements = ix_a

\* a round trip whose sum left the range of an element
C19_Witness ==
    /\ C19_RoundTrip(<<"+", "-">>)
    /\ \E i \in DOMAIN ix_a : ix_a[i] + ix_b[i] \notin IndexWords
    /\ ix_second.elements = ix_a

\* an operator was applied to operands of different length
C20_DifferentLength == ix_first # NoIndex /\ Len(ix_a) # Len(ix_b)

\* C20: on every Index type, an element-wise binary operation on operands of
\* different length terminates the program: it returns nothing and reads
\* nothing past the end of the shorter operand.
C20_DifferentLengthAborts ==
    C20_DifferentLength =>
        ix_first.status = "ABORT" /\ ~ix_first.past_end

\* the same, for the Index of index.h alone
C20_CheckedDifferentLengthAborts ==
    C20_DifferentLength /\ ~ix_local =>
        ix_first.status = "ABORT" /\ ~ix_first.past_end

(***************************************************************************)
(* Claims about IndexDomain                                                *)
(***************************************************************************)
\* the exact element-wise sum / difference the first operator was asked for
C21_Exact(i) == Apply(OriginOp(dm_op[1]), dm_domain.origin[i], dm_offset[i])

\* the first operator returned a domain of the same shape whose origin is
\* the element-wise sum / difference (in int64_t arithmetic)
C21_ShiftsOriginOnly ==
    dm_first.status = "OK" =>
        /\ dm_first.shape = dm_domain.shape
        /\ DOMAIN dm_first.origin = DOMAIN dm_domain.origin
        /\ \A i \in DOMAIN dm_first.origin :
              /\ dm_first.origin[i] = DomainWrap(C21_Exact(i))
              /\ C21_Exact(i) \in DomainWords => dm_first.origin[i] = C21_Exact(i)

\* (d + i) - i == d, in plain and compound forms
C21_RoundTrip ==
    /\ dm_second.status = "OK"
    /\ dm_op[1] \in {"+", "+="}
    /\ dm_op[2] \in {"-", "-="}
    => dm_second = dm_domain

\* IndexDomain(origin=[2,3], shape=[4,5]) + Index([10,20])
C21_ExampleCalled ==
    /\ dm_domain = [status |-> "OK", origin |-> <<2, 3>>, shape |-> <<4, 5>>]
    /\ dm_offset = <<10, 20>>
    /\ dm_op # <<>>
    /\ dm_op[1] = "+"

\* C21: IndexDomain + Index and IndexDomain - Index, and += / -=, return a
\* domain with the original shape and the element-wise sum / difference as
\* origin, so (d + i) - i == d; IndexDomain([2,3],[4,5]) + Index([10,20])
\* is IndexDomain([12,23],[4,5]).
C21_ShiftPreservesShape ==
    /\ C21_ShiftsOriginOnly
    /\ C21_RoundTrip
    /\ C21_ExampleCalled =>
          dm_first = [status |-> "OK", origin |-> <<12, 23>>,
                      shape |-> <<4, 5>>]

\* the example, shifted and shifted back
C21_Witness ==
    /\ C21_ExampleCalled
    /\ dm_op = <<"+", "-">>
    /\ dm_first.origin = <<12, 23>>
    /\ dm_second = dm_domain

(***************************************************************************)
(* Claims about MemoryKind                                                 *)
(***************************************************************************)
\* two MemoryKind values compare equal iff both are unspecified or both
\* were constructed from equal content
C22_EqualIffSameContent ==
    \A a, b \in mk_made : MemoryKindEq(a, b) <=> a.from = b.from

\* the intern table holds exactly one entry per distinct content, and every
\* view handed out still designates its content
C22_OneEntryPerContent ==
    /\ \A i, j \in DOMAIN mk_set : i # j => mk_set[i] # mk_set[j]
    /\ \A v \in mk_made :
          v.from # NoString => v.data \in DOMAIN mk_set /\ mk_set[v.data] = v.from
    /\ \A a \in DOMAIN mk_set : \E v \in mk_made : v.data = a

\* a step leaves every entry of the table where it was
C22_EntriesStay ==
    /\ Len(mk_set') >= Len(mk_set)
    /\ \A a \in DOMAIN mk_set : mk_set'[a] = mk_set[a]

\* C22: after any sequence of MemoryKind constructions, on one thread or
\* racing on several, two values compare equal iff both are unspecified or
\* both were constructed from equal content; the intern table holds exactly
\* one entry per distinct content and never removes, moves or duplicates one.
C22_Interning ==
    /\ [](C22_EqualIffSameContent /\ C22_OneEntryPerContent)
    /\ [][C22_EntriesStay]_vars

\* two threads raced for the same new content, and an unspecified kind and
\* a second content were constructed too
C22_Witness ==
    /\ mk_calls = MaxKindCalls
    /\ \A t \in DOMAIN mk_pc : mk_pc[t] = "idle"
    /\ \E t, u \in DOMAIN mk_arg : t # u /\ mk_arg[t] = mk_arg[u]
                                   /\ mk_arg[t] # NoString
    /\ Len(mk_set) >= 2
    /\ MemoryKind(NoString, 0) \in mk_made

(***************************************************************************)
(* Claims about xft::memory and xft::Array                                 *)
(***************************************************************************)
\* the size and the alignment of the rounding the call performed
C26_Size ==
    IF al_fn = "align_size" THEN al_args[1]
    ELSE SizeWrap(al_args[1] * al_args[2])

C26_Alignment == al_args[Len(al_args)]

\* r is the smallest multiple of alignment that is >= size
C26_IsRoundedUp(r, size, alignment) ==
    /\ r >= size
    /\ r % alignment = 0
    /\ \A m \in size .. r - 1 : m % alignment # 0

C26_PowerOfTwo(x) == \E k \in 0 .. SizeBits - 1 : x = 2 ^ k

\* C26: align_size(size, alignment) returns the smallest multiple of
\* alignment that is >= size, equal to
\* ((size + alignment - 1) / alignment) * alignment, and
\* calculate_aligned_size(n, e, a) is that rounding applied to n * e.
C26_AlignSizeRoundsUp ==
    al_fn # "none" /\ C26_Alignment # 0 =>
        /\ C26_IsRoundedUp(al_result, C26_Size, C26_Alignment)
        /\ al_result = align_size_ByDivision(C26_Size, C26_Alignment)

\* the program: the same for an alignment that is a power of two and a sum
\* size + alignment - 1 that fits a size_t
C26_AlignSizeRoundsUpPowerOfTwo ==
    /\ al_fn # "none"
    /\ C26_PowerOfTwo(C26_Alignment)
    /\ C26_Size + C26_Alignment - 1 \in SizeWords
    => /\ C26_IsRoundedUp(al_result, C26_Size, C26_Alignment)
       /\ al_result = align_size_ByDivision(C26_Size, C26_Alignment)

\* the index tuples inside the array
C27_InBounds(a) ==
    {ix \in ArrayIndices :
        Len(ix) = Len(a.shape) /\ \A i \in DOMAIN ix : ix[i] < a.shape[i]}

\* the accessor was called with indices inside the array
C27_ValidAccess == ar_call.fn # "none" /\ ar_call.indices \in C27_InBounds(ar_array)

\* C27: for an Array created by allocation, an access with ndim indices,
\* each < shape[i], yields the offset sum of indices[i] * strides[i], which
\* lies inside the storage and differs for different index tuples; an index
\* >= shape[i] throws out_of_range and a wrong number of indices throws
\* invalid_argument.
C27_AccessStaysInside ==
    /\ C27_ValidAccess =>
          /\ ar_result.status = "OK"
          /\ ar_result.offset + ar_array.itemsize <= ar_array.size_bytes
    /\ ar_array.status = "OK" =>
          \A ix, jx \in C27_InBounds(ar_array) :
              ix # jx => calculate_offset(ar_array, ix).offset
                            # calculate_offset(ar_array, jx).offset
    /\ ar_call.fn # "none" /\ Len(ar_call.indices) # Len(ar_array.shape) =>
          ar_result.status = "invalid_argument"
    /\ /\ ar_call.fn # "none"
       /\ Len(ar_call.indices) = Len(ar_array.shape)
       /\ ar_call.indices \notin C27_InBounds(ar_array)
       => ar_result.status = "out_of_range"

\* the program: the same, for an array whose byte count fits a size_t
C27_AccessStaysInsideNoOverflow ==
    LET t == TotalElements(ar_array.shape, 1, 1)
    IN  ar_array.status = "OK"
        /\ t.total * ar_array.itemsize + DEFAULT_ALIGNMENT - 1 <= SIZE_MAX
        => C27_AccessStaysInside


(***************************************************************************)
(* Claims about ReferenceCounted and RCReference                           *)
(***************************************************************************)
\* the owners of an object: the RCReferences that point to it and the raw
\* references released to the caller
C29_Owners(o) ==
    Cardinality({r \in Refs : rc_exists[r] /\ rc_pointer[r] = o}) + rc_raw[o]

C29_CountIsOwners ==
    \A o \in Objects :
        rc_heap.state[o] = "live" => rc_heap.ref_count[o] = C29_Owners(o)

C29_DestroyedOnceAtZero ==
    \A o \in Objects :
        /\ rc_heap.destroys[o] <= 1
        /\ rc_heap.state[o] = "destroyed" <=> rc_heap.destroys[o] = 1
        /\ rc_heap.state[o] # "unborn" =>
              (rc_heap.state[o] = "destroyed" <=> C29_Owners(o) = 0)

C29_NoDanglingReference ==
    /\ ~rc_heap.uaf
    /\ \A r \in Refs :
          (rc_exists[r] /\ rc_pointer[r] # Null) =>
              rc_heap.state[rc_pointer[r]] = "live"

\* C29: after any sequence of RCReference operations on one thread
\* (MakeRef/FormRef/TakeRef, copy and move construction, copy and move
\* assignment including self-assignment, reset, release, destruction) the
\* reference count of an object is the number of its owners, the object is
\* destroyed exactly once, precisely when that number drops to zero, and no
\* live RCReference points to a destroyed object.
C29_RCReferenceInvariant ==
    /\ C29_CountIsOwners
    /\ C29_DestroyedOnceAtZero
    /\ C29_NoDanglingReference

\* What the code keeps: the three hold until a sole owner is copy-assigned
\* to itself, which is the one operation that uses a destroyed object.
C29_InvariantUntilSelfCopy ==
    /\ rc_heap.uaf => rc_last = "self =(const&)"
    /\ ~rc_heap.uaf => C29_RCReferenceInvariant

\* Self-move-assignment and self-copy-assignment of a shared object have
\* been made and left the invariant intact.
C29_SelfMoveDone ==
    /\ rc_last = "self =(&&)"
    /\ \E o \in Objects : rc_heap.state[o] = "destroyed"
    /\ C29_RCReferenceInvariant

(***************************************************************************)
(* Claims about ReferenceCounted shared by threads                         *)
(***************************************************************************)
C30_Threads == DOMAIN rt_pc

\* a thread holds a reference until its DropRef has given it up
C30_NoneHeld == \A t \in C30_Threads : rt_held[t] = 0

C30_DestroyAtMostOnce ==
    /\ rt_destroyed <= 1
    /\ Cardinality({t \in C30_Threads : rt_pc[t] = "Destroy"}) + rt_destroyed
          <= 1

C30_DestroyAfterLastDrop ==
    (rt_destroyed > 0 \/ \E t \in C30_Threads : rt_pc[t] = "Destroy")
        => C30_NoneHeld

C30_NoUseAfterDestroy == ~rt_uaf

C30_DestroyedWhenAllDropped ==
    (C30_NoneHeld /\ \A t \in C30_Threads : rt_pc[t] = "idle")
        => rt_destroyed = 1

\* C30: when several threads each own at least one reference to the same
\* object and concurrently copy (AddRef) and drop (DropRef) only references
\* they own, under every interleaving Destroy runs exactly once, only after
\* the last reference has been dropped, and never while a thread still
\* holds a reference.
C30_DestroyExactlyOnce ==
    /\ C30_DestroyAtMostOnce
    /\ C30_DestroyAfterLastDrop
    /\ C30_NoUseAfterDestroy
    /\ C30_DestroyedWhenAllDropped

\* two threads were inside DropRef at once, one copied a reference before,
\* and the object has been destroyed
C30_Witness ==
    /\ rt_destroyed = 1
    /\ C30_NoneHeld
    /\ rt_ref_count = 0
    /\ \A t \in C30_Threads : rt_pc[t] = "idle"

=============================================================================
